---------------------------- MODULE Spec2Model ----------------------------
(***************************************************************************)
(* Model of coordinator.ProversPool (src/coordinator/proverspool.go): a    *)
(* pool of prover clients kept in one buffered Go channel, with Add and    *)
(* Get selecting between the channel operation and ctx.Done().             *)
(*                                                                         *)
(* The channel is modelled as the Go runtime implements it: a FIFO buffer  *)
(* of at most cap elements, a FIFO queue of parked receivers and a FIFO    *)
(* queue of parked senders.  A send that finds a parked receiver hands its *)
(* element to the first one directly; a receive that finds a parked sender *)
(* takes the head of the buffer and moves the sender's element into the    *)
(* buffer (or takes it directly when the channel is unbuffered).  A select *)
(* with several ready cases runs any one of them.  Closing ctx.Done()      *)
(* dequeues the goroutine parked on it in the same atomic step.            *)
(*                                                                         *)
(* A channel operation or a close that completes the select of a parked    *)
(* goroutine only makes that goroutine runnable: the goroutine returns     *)
(* from Add or Get in a later step of its own, when the scheduler runs it, *)
(* and any step of another goroutine may come in between.                  *)
(*                                                                         *)
(* The goroutine made runnable by a channel operation runs the case of     *)
(* that operation.  The goroutine made runnable by the close of ctx.Done() *)
(* has no case recorded by the runtimes up to Go 1.15 (the README names Go *)
(* 1.14): its select polls its cases again and runs any one of the cases   *)
(* ready by then, the Done case or the channel case.  From Go 1.16 on the  *)
(* close records its case and the select runs the Done case.  The model    *)
(* has both outcomes.                                                      *)
(***************************************************************************)
EXTENDS Integers, Sequences, FiniteSets

(* Bounds of the model *)
NumProcs == 3
NumHandles == 2
MaxCapacity == 2

Procs == 1..NumProcs
Handles == 1..NumHandles
\* the nil prover.Client returned next to an error
NoHandle == 0

VARIABLES
  cap,        \* maxServerProofs given to NewProversPool: capacity of p.pool
  buf,        \* the elements buffered in p.pool, oldest first
  recvq,      \* goroutines parked in Get on p.pool, oldest first
  sendq,      \* goroutines parked in Add on p.pool, oldest first
  pc,         \* where each goroutine is: idle, parked in a select, or runnable
  elem,       \* per goroutine in a select: the element it sends or was handed
  ctx,        \* ctx[p]: ctx.Done() of the call goroutine p is in is closed
  held,       \* held[p][h]: how many checkouts of h goroutine p owns
  fresh,      \* handles constructed but never put into the pool
  nSeeded,    \* number of completed sends of handles the adder did not hold
  nDiscarded, \* number of checked-out handles dropped by their holder
  last,       \* the last step: the call made and the goroutine it woke
  unowned,    \* goroutines parked in Add with a handle neither new nor theirs
  call        \* the call of a converter of package common or apitypes

poolVars == <<cap, buf, recvq, sendq, pc, elem, ctx, held, fresh, nSeeded,
              nDiscarded, last, unowned>>

vars == <<poolVars, call>>

\* no converter has been called
NoCall == [fn |-> "none"]

-----------------------------------------------------------------------------
(* common.ErrDone, tracerr.Wrap and common.IsErrDone *)

Nil == [msg |-> "", wrapped |-> FALSE]
ErrDone == [msg |-> "done", wrapped |-> FALSE]

\* tracerr.Wrap keeps nil as nil and attaches a stack trace to an error
Wrap(err) == IF err = Nil THEN Nil ELSE [err EXCEPT !.wrapped = TRUE]
\* tracerr.Unwrap gives back the error that was wrapped
Unwrap(err) == [err EXCEPT !.wrapped = FALSE]

\* variant of IsErrDone: the error is compared without unwrapping it
IsErrDone_NoUnwrap(err) == err = ErrDone

IsErrDone(err) == Unwrap(err) = ErrDone

-----------------------------------------------------------------------------
(* Helpers on the state *)

Remove(q, p) == SelectSeq(q, LAMBDA x : x # p)

Count(s, h) == Len(SelectSeq(s, LAMBDA x : x = h))

InSeq(s, x) == \E i \in 1..Len(s) : s[i] = x

RECURSIVE SumHeld(_, _, _)
SumHeld(hd, P, h) ==
  IF P = {} THEN 0
  ELSE LET p == CHOOSE x \in P : TRUE IN hd[p][h] + SumHeld(hd, P \ {p}, h)

RECURSIVE SumAll(_, _)
SumAll(hd, H) ==
  IF H = {} THEN 0
  ELSE LET h == CHOOSE x \in H : TRUE IN SumHeld(hd, Procs, h) + SumAll(hd, H \ {h})

\* number of checkouts of h over all goroutines; a handle counts as checked
\* out by a goroutine from the channel operation that gave it to that
\* goroutine's Get, so also while that Get has yet to return
CheckedOut(h) == SumHeld(held, Procs, h)
\* number of handles checked out in all
NumCheckedOut == SumAll(held, Handles)
\* the available handles are the ones buffered in the channel
NumAvailable == Len(buf)

\* the adder gives up its checkout of h, if it has one
Checkin(hd, p, h) == IF hd[p][h] > 0 THEN [hd EXCEPT ![p][h] = @ - 1] ELSE hd
\* the receiver owns one more checkout of h
Checkout(hd, p, h) == [hd EXCEPT ![p][h] = @ + 1]

\* an Add of a handle its caller does not hold puts a new handle in the pool
Seeds(p, h) == IF held[p][h] = 0 THEN 1 ELSE 0

\* What a step did.  op, proc: the step and its goroutine ("Add" and "Get":
\* a call, which returns in the step unless sel is "park"; "CtxDone": the
\* close of the context of a call in progress; "GetCancel", "AddCancel",
\* "GetReturn", "AddReturn": the return of a call that had parked;
\* "GetRepoll", "AddRepoll": the return of a call woken by the close of its
\* context whose select ran the channel case when it polled again); ctxDone:
\* the state of the context of the call; h, err: the handle passed to Add,
\* or the results of Get; sel: the select case run ("park" when none was
\* ready); peer, peerH: the parked goroutine whose channel operation the
\* step completed, and its handle; rel: the handle passed to Add was checked
\* out by the caller (a Release).
Event(op, p, h, err, case, done, peer, peerH) ==
  [op |-> op, proc |-> p, h |-> h, err |-> err, sel |-> case,
   ctxDone |-> done, peer |-> peer, peerH |-> peerH,
   rel |-> (op \in {"Add", "AddCancel", "AddRepoll"} /\ held[p][h] > 0)]

-----------------------------------------------------------------------------
(* NewProversPool *)

\* variant of Init: a pool of capacity 0 is constructed holding a prover
Init_Stocked ==
  /\ cap \in 0..MaxCapacity
  /\ buf = IF cap = 0 THEN <<1>> ELSE <<>>
  /\ recvq = <<>>
  /\ sendq = <<>>
  /\ pc = [p \in Procs |-> "idle"]
  /\ elem = [p \in Procs |-> NoHandle]
  /\ ctx = [p \in Procs |-> FALSE]
  /\ held = [p \in Procs |-> [h \in Handles |-> 0]]
  /\ fresh = Handles
  /\ nSeeded = 0
  /\ nDiscarded = 0
  /\ last = [op |-> "New", proc |-> 0, h |-> NoHandle, err |-> Nil,
             sel |-> "none", ctxDone |-> FALSE, peer |-> 0,
             peerH |-> NoHandle, rel |-> FALSE]
  /\ unowned = {}
  /\ call = NoCall

Init ==
  /\ cap \in 0..MaxCapacity
  /\ buf = <<>>
  /\ recvq = <<>>
  /\ sendq = <<>>
  /\ pc = [p \in Procs |-> "idle"]
  /\ elem = [p \in Procs |-> NoHandle]
  /\ ctx = [p \in Procs |-> FALSE]
  /\ held = [p \in Procs |-> [h \in Handles |-> 0]]
  /\ fresh = Handles
  /\ nSeeded = 0
  /\ nDiscarded = 0
  /\ last = [op |-> "New", proc |-> 0, h |-> NoHandle, err |-> Nil,
             sel |-> "none", ctxDone |-> FALSE, peer |-> 0,
             peerH |-> NoHandle, rel |-> FALSE]
  /\ unowned = {}
  /\ call = NoCall

-----------------------------------------------------------------------------
(* ProversPool.Add *)

\* variant of SendReady: a buffer of more than one slot keeps one slot free
SendReady_KeepsOneFree ==
  recvq # <<>> \/ Len(buf) < (IF cap > 1 THEN cap - 1 ELSE cap)

\* variant of SendReady: the checked-out handles count against the capacity
SendReady_CountsHeld == recvq # <<>> \/ Len(buf) + NumCheckedOut < cap

\* case p.pool <- serverProof can proceed
SendReady == recvq # <<>> \/ Len(buf) < cap

\* the callers' discipline: a handle is Added when it is new, or Released
\* by the goroutine that holds it
MayAdd(p, h) == h \in fresh \/ held[p][h] > 0

\* variant of AddSend: the send wakes every parked receiver with the handle
AddSend_Broadcast(p, h, done) ==
  /\ pc[p] = "idle"
  /\ MayAdd(p, h)
  /\ SendReady
  /\ IF recvq # <<>>
       THEN /\ recvq' = <<>>
            /\ buf' = buf
            /\ pc' = [q \in Procs |->
                        IF pc[q] = "GetParked" THEN "GetHanded" ELSE pc[q]]
            /\ elem' = [q \in Procs |->
                          IF pc[q] = "GetParked" THEN h ELSE elem[q]]
            /\ held' = [q \in Procs |->
                          IF pc[q] = "GetParked" THEN [held[q] EXCEPT ![h] = @ + 1]
                          ELSE IF q = p THEN Checkin(held, p, h)[p]
                          ELSE held[q]]
            /\ last' = Event("Add", p, h, Nil, "send", done, Head(recvq), h)
       ELSE /\ buf' = Append(buf, h)
            /\ held' = Checkin(held, p, h)
            /\ last' = Event("Add", p, h, Nil, "send", done, 0, NoHandle)
            /\ UNCHANGED <<recvq, pc, elem>>
  /\ fresh' = fresh \ {h}
  /\ nSeeded' = nSeeded + Seeds(p, h)
  /\ UNCHANGED <<cap, sendq, ctx, nDiscarded, unowned>>
  /\ UNCHANGED call

\* variant of AddSend: the handle is buffered even when a receiver is parked
AddSend_NoWakeup(p, h, done) ==
  /\ pc[p] = "idle"
  /\ MayAdd(p, h)
  /\ SendReady
  /\ buf' = Append(buf, h)
  /\ held' = Checkin(held, p, h)
  /\ last' = Event("Add", p, h, Nil, "send", done, 0, NoHandle)
  /\ fresh' = fresh \ {h}
  /\ nSeeded' = nSeeded + Seeds(p, h)
  /\ UNCHANGED <<cap, recvq, sendq, pc, elem, ctx, nDiscarded, unowned>>
  /\ UNCHANGED call

\* variant of AddSend: with no receiver parked the handle is buffered twice
AddSend_Twice(p, h, done) ==
  /\ pc[p] = "idle"
  /\ MayAdd(p, h)
  /\ SendReady
  /\ IF recvq # <<>>
       THEN LET q == Head(recvq) IN
            /\ recvq' = Tail(recvq)
            /\ buf' = buf
            /\ pc' = [pc EXCEPT ![q] = "GetHanded"]
            /\ elem' = [elem EXCEPT ![q] = h]
            /\ held' = Checkout(Checkin(held, p, h), q, h)
            /\ last' = Event("Add", p, h, Nil, "send", done, q, h)
       ELSE /\ buf' = Append(Append(buf, h), h)
            /\ held' = Checkin(held, p, h)
            /\ last' = Event("Add", p, h, Nil, "send", done, 0, NoHandle)
            /\ UNCHANGED <<recvq, pc, elem>>
  /\ fresh' = fresh \ {h}
  /\ nSeeded' = nSeeded + Seeds(p, h)
  /\ UNCHANGED <<cap, sendq, ctx, nDiscarded, unowned>>
  /\ UNCHANGED call

\* variant of AddSend: the element goes to the receiver parked last
AddSend_NewestFirst(p, h, done) ==
  /\ pc[p] = "idle"
  /\ MayAdd(p, h)
  /\ SendReady
  /\ IF recvq # <<>>
       THEN LET q == recvq[Len(recvq)] IN
            /\ recvq' = SubSeq(recvq, 1, Len(recvq) - 1)
            /\ buf' = buf
            /\ pc' = [pc EXCEPT ![q] = "GetHanded"]
            /\ elem' = [elem EXCEPT ![q] = h]
            /\ held' = Checkout(Checkin(held, p, h), q, h)
            /\ last' = Event("Add", p, h, Nil, "send", done, q, h)
       ELSE /\ buf' = Append(buf, h)
            /\ held' = Checkin(held, p, h)
            /\ last' = Event("Add", p, h, Nil, "send", done, 0, NoHandle)
            /\ UNCHANGED <<recvq, pc, elem>>
  /\ fresh' = fresh \ {h}
  /\ nSeeded' = nSeeded + Seeds(p, h)
  /\ UNCHANGED <<cap, sendq, ctx, nDiscarded, unowned>>
  /\ UNCHANGED call

\* the send case of the select in Add runs at once and Add returns: the
\* element goes to the first parked receiver, which is handed it and becomes
\* runnable, or else into the buffer
AddSend(p, h, done) ==
  /\ pc[p] = "idle"
  /\ MayAdd(p, h)
  /\ SendReady
  /\ IF recvq # <<>>
       THEN LET q == Head(recvq) IN
            /\ recvq' = Tail(recvq)
            /\ buf' = buf
            /\ pc' = [pc EXCEPT ![q] = "GetHanded"]
            /\ elem' = [elem EXCEPT ![q] = h]
            /\ held' = Checkout(Checkin(held, p, h), q, h)
            /\ last' = Event("Add", p, h, Nil, "send", done, q, h)
       ELSE /\ buf' = Append(buf, h)
            /\ held' = Checkin(held, p, h)
            /\ last' = Event("Add", p, h, Nil, "send", done, 0, NoHandle)
            /\ UNCHANGED <<recvq, pc, elem>>
  /\ fresh' = fresh \ {h}
  /\ nSeeded' = nSeeded + Seeds(p, h)
  /\ UNCHANGED <<cap, sendq, ctx, nDiscarded, unowned>>
  /\ UNCHANGED call

\* variant of AddDone: the handle is buffered before the context is looked at
AddDone_Stores(p, h, done) ==
  /\ pc[p] = "idle"
  /\ MayAdd(p, h)
  /\ done
  /\ buf' = IF Len(buf) < cap THEN Append(buf, h) ELSE buf
  /\ last' = Event("Add", p, h, Nil, "done", done, 0, NoHandle)
  /\ UNCHANGED <<cap, recvq, sendq, pc, elem, ctx, held, fresh, nSeeded,
                 nDiscarded, unowned>>
  /\ UNCHANGED call

\* the ctx.Done() case of the select in Add runs at once and Add returns
AddDone(p, h, done) ==
  /\ pc[p] = "idle"
  /\ MayAdd(p, h)
  /\ done
  /\ last' = Event("Add", p, h, Nil, "done", done, 0, NoHandle)
  /\ UNCHANGED <<cap, buf, recvq, sendq, pc, elem, ctx, held, fresh,
                 nSeeded, nDiscarded, unowned>>
  /\ UNCHANGED call

\* variant of AddPark: with no room and no receiver the handle is stored
AddPark_Stores(p, h, done) ==
  /\ pc[p] = "idle"
  /\ MayAdd(p, h)
  /\ ~done
  /\ ~SendReady
  /\ buf' = Append(buf, h)
  /\ held' = Checkin(held, p, h)
  /\ fresh' = fresh \ {h}
  /\ nSeeded' = nSeeded + Seeds(p, h)
  /\ last' = Event("Add", p, h, Nil, "send", done, 0, NoHandle)
  /\ UNCHANGED <<cap, recvq, sendq, pc, elem, ctx, nDiscarded, unowned>>
  /\ UNCHANGED call

\* no case of the select in Add is ready: the goroutine parks
AddPark(p, h, done) ==
  /\ pc[p] = "idle"
  /\ MayAdd(p, h)
  /\ ~done
  /\ ~SendReady
  /\ sendq' = Append(sendq, p)
  /\ pc' = [pc EXCEPT ![p] = "AddParked"]
  /\ elem' = [elem EXCEPT ![p] = h]
  /\ fresh' = fresh \ {h}
  /\ last' = Event("Add", p, h, Nil, "park", done, 0, NoHandle)
  /\ UNCHANGED <<cap, buf, recvq, ctx, held, nSeeded, nDiscarded, unowned>>
  /\ UNCHANGED call

Add(p, h, done) == AddSend(p, h, done) \/ AddDone(p, h, done) \/ AddPark(p, h, done)

-----------------------------------------------------------------------------
(* ProversPool.Get *)

\* variant of RecvReady: the buffered handles are not looked at
RecvReady_SendersOnly == sendq # <<>>

\* case serverProof := <-p.pool can proceed
RecvReady == buf # <<>> \/ sendq # <<>>

\* the other goroutines in Add with the handle of sender s that do not hold
\* it: once s has sent it, their handle is no longer new
SameHandle(s) ==
  {q \in Procs \ {s} : /\ pc[q] \in {"AddParked", "AddWoken"}
                       /\ elem[q] = elem[s]
                       /\ held[q][elem[q]] = 0}

\* variant of GetRecv: the handle is read but stays in the buffer
GetRecv_Peek(p, done) ==
  /\ pc[p] = "idle"
  /\ buf # <<>>
  /\ held' = Checkout(held, p, Head(buf))
  /\ last' = Event("Get", p, Head(buf), Nil, "recv", done, 0, NoHandle)
  /\ UNCHANGED <<cap, buf, recvq, sendq, pc, elem, ctx, fresh, nSeeded,
                 nDiscarded, unowned>>
  /\ UNCHANGED call

\* variant of GetRecv: the handle buffered last is taken
GetRecv_Newest(p, done) ==
  /\ pc[p] = "idle"
  /\ RecvReady
  /\ IF sendq # <<>>
       THEN LET s == Head(sendq)
                got == IF cap = 0 THEN elem[s] ELSE buf[Len(buf)]
            IN
            /\ sendq' = Tail(sendq)
            /\ buf' = IF cap = 0 THEN buf
                      ELSE Append(SubSeq(buf, 1, Len(buf) - 1), elem[s])
            /\ pc' = [pc EXCEPT ![s] = "AddTaken"]
            /\ held' = Checkout(Checkin(held, s, elem[s]), p, got)
            /\ nSeeded' = nSeeded + Seeds(s, elem[s])
            /\ fresh' = fresh \ {elem[s]}
            /\ unowned' = (unowned \ {s}) \cup SameHandle(s)
            /\ last' = Event("Get", p, got, Nil, "recv", done, s, elem[s])
       ELSE /\ buf' = SubSeq(buf, 1, Len(buf) - 1)
            /\ held' = Checkout(held, p, buf[Len(buf)])
            /\ last' = Event("Get", p, buf[Len(buf)], Nil, "recv", done, 0, NoHandle)
            /\ UNCHANGED <<sendq, pc, nSeeded, fresh, unowned>>
  /\ UNCHANGED <<cap, recvq, elem, ctx, nDiscarded>>
  /\ UNCHANGED call

\* the receive case of the select in Get runs at once and Get returns: the
\* head of the buffer is taken; the first parked sender, if any, has its
\* element moved into the buffer (or taken directly, in an unbuffered
\* channel) and becomes runnable: its handle has then been put into the pool
GetRecv(p, done) ==
  /\ pc[p] = "idle"
  /\ RecvReady
  /\ IF sendq # <<>>
       THEN LET s == Head(sendq)
                got == IF cap = 0 THEN elem[s] ELSE Head(buf)
            IN
            /\ sendq' = Tail(sendq)
            /\ buf' = IF cap = 0 THEN buf ELSE Append(Tail(buf), elem[s])
            /\ pc' = [pc EXCEPT ![s] = "AddTaken"]
            /\ held' = Checkout(Checkin(held, s, elem[s]), p, got)
            /\ nSeeded' = nSeeded + Seeds(s, elem[s])
            /\ fresh' = fresh \ {elem[s]}
            /\ unowned' = (unowned \ {s}) \cup SameHandle(s)
            /\ last' = Event("Get", p, got, Nil, "recv", done, s, elem[s])
       ELSE /\ buf' = Tail(buf)
            /\ held' = Checkout(held, p, Head(buf))
            /\ last' = Event("Get", p, Head(buf), Nil, "recv", done, 0, NoHandle)
            /\ UNCHANGED <<sendq, pc, nSeeded, fresh, unowned>>
  /\ UNCHANGED <<cap, recvq, elem, ctx, nDiscarded>>
  /\ UNCHANGED call

\* variant of GetDone: a handle is received before the context is looked at
GetDone_Consumes(p, done) ==
  /\ pc[p] = "idle"
  /\ done
  /\ buf' = IF buf # <<>> THEN Tail(buf) ELSE buf
  /\ last' = Event("Get", p, NoHandle, Wrap(ErrDone), "done", done, 0, NoHandle)
  /\ UNCHANGED <<cap, recvq, sendq, pc, elem, ctx, held, fresh, nSeeded,
                 nDiscarded, unowned>>
  /\ UNCHANGED call

\* the ctx.Done() case of the select in Get runs at once and Get returns
GetDone(p, done) ==
  /\ pc[p] = "idle"
  /\ done
  /\ last' = Event("Get", p, NoHandle, Wrap(ErrDone), "done", done, 0, NoHandle)
  /\ UNCHANGED <<cap, buf, recvq, sendq, pc, elem, ctx, held, fresh,
                 nSeeded, nDiscarded, unowned>>
  /\ UNCHANGED call

\* variant of GetPark: with no case ready Get gives up and returns ErrDone
GetPark_GivesUp(p, done) ==
  /\ pc[p] = "idle"
  /\ ~done
  /\ ~RecvReady
  /\ last' = Event("Get", p, NoHandle, Wrap(ErrDone), "done", done, 0, NoHandle)
  /\ UNCHANGED <<cap, buf, recvq, sendq, pc, elem, ctx, held, fresh,
                 nSeeded, nDiscarded, unowned>>
  /\ UNCHANGED call

\* no case of the select in Get is ready: the goroutine parks
GetPark(p, done) ==
  /\ pc[p] = "idle"
  /\ ~done
  /\ ~RecvReady
  /\ recvq' = Append(recvq, p)
  /\ pc' = [pc EXCEPT ![p] = "GetParked"]
  /\ last' = Event("Get", p, NoHandle, Nil, "park", done, 0, NoHandle)
  /\ UNCHANGED <<cap, buf, sendq, elem, ctx, held, fresh, nSeeded,
                 nDiscarded, unowned>>
  /\ UNCHANGED call

Get(p, done) == GetRecv(p, done) \/ GetDone(p, done) \/ GetPark(p, done)

-----------------------------------------------------------------------------
(* The contexts of the calls in progress *)

\* variant of GetCtxDone: a parked Get is woken by a timeout of the pool,
\* its context not done
GetCtxDone_TimesOut(p) ==
  /\ pc[p] = "GetParked"
  /\ recvq' = Remove(recvq, p)
  /\ pc' = [pc EXCEPT ![p] = "GetWoken"]
  /\ last' = Event("Timeout", p, NoHandle, Nil, "none", FALSE, 0, NoHandle)
  /\ UNCHANGED <<cap, buf, sendq, elem, ctx, held, fresh, nSeeded,
                 nDiscarded, unowned>>
  /\ UNCHANGED call

\* ctx.Done() of a Get parked in the select is closed: the close wins the
\* select of the goroutine, so that no later send reaches it, and makes the
\* goroutine runnable
GetCtxDone(p) ==
  /\ pc[p] = "GetParked"
  /\ recvq' = Remove(recvq, p)
  /\ pc' = [pc EXCEPT ![p] = "GetWoken"]
  /\ ctx' = [ctx EXCEPT ![p] = TRUE]
  /\ last' = Event("CtxDone", p, NoHandle, Nil, "none", TRUE, 0, NoHandle)
  /\ UNCHANGED <<cap, buf, sendq, elem, held, fresh, nSeeded, nDiscarded,
                 unowned>>
  /\ UNCHANGED call

\* ctx.Done() of an Add parked in the select is closed: the goroutine leaves
\* the send queue, its element unsent, and is runnable
AddCtxDone(p) ==
  /\ pc[p] = "AddParked"
  /\ sendq' = Remove(sendq, p)
  /\ pc' = [pc EXCEPT ![p] = "AddWoken"]
  /\ ctx' = [ctx EXCEPT ![p] = TRUE]
  /\ last' = Event("CtxDone", p, NoHandle, Nil, "none", TRUE, 0, NoHandle)
  /\ UNCHANGED <<cap, buf, recvq, elem, held, fresh, nSeeded, nDiscarded,
                 unowned>>
  /\ UNCHANGED call

\* ctx.Done() of a call is closed after the channel operation of its select
\* has completed and before the goroutine has run: the select is decided,
\* the close changes nothing in the pool
CtxDoneRunnable(p) ==
  /\ pc[p] \in {"GetHanded", "AddTaken"}
  /\ ~ctx[p]
  /\ ctx' = [ctx EXCEPT ![p] = TRUE]
  /\ last' = Event("CtxDone", p, NoHandle, Nil, "none", TRUE, 0, NoHandle)
  /\ UNCHANGED <<cap, buf, recvq, sendq, pc, elem, held, fresh, nSeeded,
                 nDiscarded, unowned>>
  /\ UNCHANGED call

-----------------------------------------------------------------------------
(* The scheduler runs a goroutine that was parked in a select *)

\* variant of GetWake: the woken Get returns only once a handle is there
GetWake_NeedsHandle(p) ==
  /\ pc[p] = "GetWoken"
  /\ RecvReady
  /\ pc' = [pc EXCEPT ![p] = "idle"]
  /\ ctx' = [ctx EXCEPT ![p] = FALSE]
  /\ last' = Event("GetCancel", p, NoHandle, Wrap(ErrDone), "done", ctx[p], 0, NoHandle)
  /\ UNCHANGED <<cap, buf, recvq, sendq, elem, held, fresh, nSeeded,
                 nDiscarded, unowned>>
  /\ UNCHANGED call

\* the goroutine woken by the close runs the Done case of Get and returns
\* the wrapped ErrDone
GetWake(p) ==
  /\ pc[p] = "GetWoken"
  /\ pc' = [pc EXCEPT ![p] = "idle"]
  /\ ctx' = [ctx EXCEPT ![p] = FALSE]
  /\ last' = Event("GetCancel", p, NoHandle, Wrap(ErrDone), "done", ctx[p], 0, NoHandle)
  /\ UNCHANGED <<cap, buf, recvq, sendq, elem, held, fresh, nSeeded,
                 nDiscarded, unowned>>
  /\ UNCHANGED call

\* the goroutine woken by the close polls the select of Get again (Go up to
\* 1.15) and, a handle being there by then, runs the receive case like a Get
\* called at that moment: Get returns the handle with a nil error
GetWakeRecv(p) ==
  /\ pc[p] = "GetWoken"
  /\ RecvReady
  /\ IF sendq # <<>>
       THEN LET s == Head(sendq)
                got == IF cap = 0 THEN elem[s] ELSE Head(buf)
            IN
            /\ sendq' = Tail(sendq)
            /\ buf' = IF cap = 0 THEN buf ELSE Append(Tail(buf), elem[s])
            /\ pc' = [pc EXCEPT ![s] = "AddTaken", ![p] = "idle"]
            /\ held' = Checkout(Checkin(held, s, elem[s]), p, got)
            /\ nSeeded' = nSeeded + Seeds(s, elem[s])
            /\ fresh' = fresh \ {elem[s]}
            /\ unowned' = (unowned \ {s}) \cup SameHandle(s)
            /\ last' = Event("GetRepoll", p, got, Nil, "recv", ctx[p], s, elem[s])
       ELSE /\ buf' = Tail(buf)
            /\ pc' = [pc EXCEPT ![p] = "idle"]
            /\ held' = Checkout(held, p, Head(buf))
            /\ last' = Event("GetRepoll", p, Head(buf), Nil, "recv", ctx[p], 0, NoHandle)
            /\ UNCHANGED <<sendq, nSeeded, fresh, unowned>>
  /\ ctx' = [ctx EXCEPT ![p] = FALSE]
  /\ UNCHANGED <<cap, recvq, elem, nDiscarded>>
  /\ UNCHANGED call

\* variant of AddWake: the cancelled Add has stored its handle
AddWake_Stores(p) ==
  /\ pc[p] = "AddWoken"
  /\ pc' = [pc EXCEPT ![p] = "idle"]
  /\ elem' = [elem EXCEPT ![p] = NoHandle]
  /\ ctx' = [ctx EXCEPT ![p] = FALSE]
  /\ buf' = Append(buf, elem[p])
  /\ fresh' = IF held[p][elem[p]] = 0 /\ p \notin unowned
              THEN fresh \cup {elem[p]}
              ELSE fresh
  /\ unowned' = unowned \ {p}
  /\ last' = Event("AddCancel", p, elem[p], Nil, "done", ctx[p], 0, NoHandle)
  /\ UNCHANGED <<cap, recvq, sendq, held, nSeeded, nDiscarded>>
  /\ UNCHANGED call

\* the goroutine woken by the close runs the Done case of Add and returns
\* without having sent; a handle that was new when the call parked is new
\* again, any other handle is as it was
AddWake(p) ==
  /\ pc[p] = "AddWoken"
  /\ pc' = [pc EXCEPT ![p] = "idle"]
  /\ elem' = [elem EXCEPT ![p] = NoHandle]
  /\ ctx' = [ctx EXCEPT ![p] = FALSE]
  /\ fresh' = IF held[p][elem[p]] = 0 /\ p \notin unowned
              THEN fresh \cup {elem[p]}
              ELSE fresh
  /\ unowned' = unowned \ {p}
  /\ last' = Event("AddCancel", p, elem[p], Nil, "done", ctx[p], 0, NoHandle)
  /\ UNCHANGED <<cap, buf, recvq, sendq, held, nSeeded, nDiscarded>>
  /\ UNCHANGED call

\* the goroutine woken by the close polls the select of Add again (Go up to
\* 1.15) and, a receiver or room being there by then, runs the send case
\* like an Add called at that moment: the handle is sent and Add returns
AddWakeSend(p) ==
  /\ pc[p] = "AddWoken"
  /\ SendReady
  /\ IF recvq # <<>>
       THEN LET q == Head(recvq) IN
            /\ recvq' = Tail(recvq)
            /\ buf' = buf
            /\ pc' = [pc EXCEPT ![q] = "GetHanded", ![p] = "idle"]
            /\ elem' = [elem EXCEPT ![q] = elem[p], ![p] = NoHandle]
            /\ held' = Checkout(Checkin(held, p, elem[p]), q, elem[p])
            /\ last' = Event("AddRepoll", p, elem[p], Nil, "send", ctx[p], q, elem[p])
       ELSE /\ buf' = Append(buf, elem[p])
            /\ pc' = [pc EXCEPT ![p] = "idle"]
            /\ elem' = [elem EXCEPT ![p] = NoHandle]
            /\ held' = Checkin(held, p, elem[p])
            /\ last' = Event("AddRepoll", p, elem[p], Nil, "send", ctx[p], 0, NoHandle)
            /\ UNCHANGED recvq
  /\ ctx' = [ctx EXCEPT ![p] = FALSE]
  /\ fresh' = fresh \ {elem[p]}
  /\ nSeeded' = nSeeded + Seeds(p, elem[p])
  /\ unowned' = (unowned \ {p}) \cup SameHandle(p)
  /\ UNCHANGED <<cap, sendq, nDiscarded>>
  /\ UNCHANGED call

\* variant of GetResume: the Get that was handed a handle returns only once
\* another handle is buffered
GetResume_Stalls(p) ==
  /\ pc[p] = "GetHanded"
  /\ buf # <<>>
  /\ pc' = [pc EXCEPT ![p] = "idle"]
  /\ elem' = [elem EXCEPT ![p] = NoHandle]
  /\ ctx' = [ctx EXCEPT ![p] = FALSE]
  /\ last' = Event("GetReturn", p, elem[p], Nil, "recv", ctx[p], 0, NoHandle)
  /\ UNCHANGED <<cap, buf, recvq, sendq, held, fresh, nSeeded, nDiscarded,
                 unowned>>
  /\ UNCHANGED call

\* the goroutine that was handed a handle runs the receive case of Get and
\* returns the handle with a nil error, whatever its context is by then
GetResume(p) ==
  /\ pc[p] = "GetHanded"
  /\ pc' = [pc EXCEPT ![p] = "idle"]
  /\ elem' = [elem EXCEPT ![p] = NoHandle]
  /\ ctx' = [ctx EXCEPT ![p] = FALSE]
  /\ last' = Event("GetReturn", p, elem[p], Nil, "recv", ctx[p], 0, NoHandle)
  /\ UNCHANGED <<cap, buf, recvq, sendq, held, fresh, nSeeded, nDiscarded,
                 unowned>>
  /\ UNCHANGED call

\* the goroutine whose element a receiver took runs the send case of Add
\* and returns
AddResume(p) ==
  /\ pc[p] = "AddTaken"
  /\ pc' = [pc EXCEPT ![p] = "idle"]
  /\ elem' = [elem EXCEPT ![p] = NoHandle]
  /\ ctx' = [ctx EXCEPT ![p] = FALSE]
  /\ last' = Event("AddReturn", p, elem[p], Nil, "send", ctx[p], 0, NoHandle)
  /\ UNCHANGED <<cap, buf, recvq, sendq, held, fresh, nSeeded, nDiscarded,
                 unowned>>
  /\ UNCHANGED call

\* goroutine p, runnable after it was parked in its select, is run
Run(p) ==
  \/ GetWake(p)
  \/ GetWakeRecv(p)
  \/ AddWake(p)
  \/ AddWakeSend(p)
  \/ GetResume(p)
  \/ AddResume(p)

-----------------------------------------------------------------------------
(* The callers' side: dropping a prover *)

\* a holder drops a prover instead of releasing it
Discard(p, h) ==
  /\ pc[p] = "idle"
  /\ held[p][h] > 0
  /\ held' = [held EXCEPT ![p][h] = @ - 1]
  /\ nDiscarded' = nDiscarded + 1
  /\ last' = Event("Discard", p, h, Nil, "none", FALSE, 0, NoHandle)
  /\ UNCHANGED <<cap, buf, recvq, sendq, pc, elem, ctx, fresh, nSeeded,
                 unowned>>
  /\ UNCHANGED call

-----------------------------------------------------------------------------

Next ==
  \/ \E p \in Procs, h \in Handles, done \in BOOLEAN : Add(p, h, done)
  \/ \E p \in Procs, done \in BOOLEAN : Get(p, done)
  \/ \E p \in Procs : GetCtxDone(p)
  \/ \E p \in Procs : AddCtxDone(p)
  \/ \E p \in Procs : CtxDoneRunnable(p)
  \/ \E p \in Procs : Run(p)
  \/ \E p \in Procs, h \in Handles : Discard(p, h)

Spec == Init /\ [][Next]_vars

\* the Go scheduler runs every runnable goroutine: a goroutine made runnable
\* is not left waiting forever
LiveSpec ==
  /\ Init
  /\ [][Next]_vars
  /\ \A p \in Procs : WF_vars(Run(p))

TypeOK ==
  /\ cap \in 0..MaxCapacity
  /\ Len(buf) <= cap
  /\ \A i \in 1..Len(buf) : buf[i] \in Handles
  /\ pc \in [Procs -> {"idle", "GetParked", "AddParked", "GetWoken", "AddWoken",
                     "GetHanded", "AddTaken"}]
  /\ elem \in [Procs -> Handles \cup {NoHandle}]
  /\ ctx \in [Procs -> BOOLEAN]
  /\ \A p \in Procs :
       /\ pc[p] \in {"idle", "GetParked", "AddParked"} => ~ctx[p]
       /\ pc[p] \in {"GetWoken", "AddWoken"} => ctx[p]
       /\ pc[p] \in {"AddParked", "AddWoken", "GetHanded", "AddTaken"}
            <=> elem[p] # NoHandle
  /\ fresh \subseteq Handles
  /\ unowned \subseteq {p \in Procs : pc[p] \in {"AddParked", "AddWoken"}}
  /\ \A p \in Procs : InSeq(recvq, p) <=> pc[p] = "GetParked"
  /\ \A p \in Procs : InSeq(sendq, p) <=> pc[p] = "AddParked"
  /\ recvq # <<>> => buf = <<>> /\ sendq = <<>>
  /\ sendq # <<>> => Len(buf) = cap

-----------------------------------------------------------------------------
(* What the last step was, read from the event it recorded *)

\* the last step was a call of Get / of Add (which returned, or parked)
GetCalled == last.op = "Get"
AddCalled == last.op = "Add"
\* the last step ran the send case of the select of an Add, which returned
\* in it: of an Add called in the step, or of one woken by the close of its
\* context
AddSent == last.op \in {"Add", "AddRepoll"} /\ last.sel = "send"
\* the last step handed the handle of an Add to a parked Get
HandedOver == AddSent /\ last.peer # 0
\* the last step ran the receive case of the select of a Get, which returned
\* in it: of a Get called in the step, or of one woken by the close of its
\* context
GetReceived == last.op \in {"Get", "GetRepoll"} /\ last.sel = "recv"
\* the last step gave a handle to a parked Add's receiver: a Get took the
\* element of the Add parked longest
TookFromSender == GetReceived /\ last.peer # 0
\* the last step was the return of a Get: of one called in the step, or of
\* one that had parked
GetReturned ==
  \/ last.op = "Get" /\ last.sel # "park"
  \/ last.op \in {"GetCancel", "GetReturn", "GetRepoll"}
\* the last step was the return of a Get with a handle
GetReturnedHandle ==
  \/ GetReceived
  \/ last.op = "GetReturn"

\* copies of handle h in the buffer b and checked out in hd by goroutines P
Copies(b, hd, P, h) == Count(b, h) + SumHeld(hd, P, h)

-----------------------------------------------------------------------------
(* C1 *)

\* C1: mutual exclusivity. With distinct handles seeded and every checkout
\* released at most once, no handle is checked out by two goroutines at the
\* same time (nor checked out twice by one), in every reachable state; the
\* Get that was handed a handle while parked counts as its holder before it
\* has returned; and when a Get returns a handle, the goroutine it returns to
\* is the only holder.
C1_MutualExclusion ==
  /\ \A h \in Handles : CheckedOut(h) <= 1
  /\ \A q \in Procs : pc[q] = "GetHanded" => held[q][elem[q]] = 1
  /\ GetReturnedHandle
       => (/\ held[last.proc][last.h] = 1
           /\ \A q \in Procs \ {last.proc} : held[q][last.h] = 0)

\* a Get that had parked has returned the handle it was handed, while
\* another goroutine holds the other handle
C1_Witness ==
  /\ last.op = "GetReturn"
  /\ held[last.proc][last.h] = 1
  /\ \E p \in Procs \ {last.proc}, h \in Handles \ {last.h} :
       held[p][h] = 1 /\ pc[p] = "idle"

-----------------------------------------------------------------------------
(* C2 *)

\* C2: the handles available plus the handles checked out never exceed the
\* capacity given to NewProversPool.
C2_ResidentWithinCapacity == NumAvailable + NumCheckedOut <= cap

-----------------------------------------------------------------------------
(* C3 *)

\* C3: capacity conservation. The handles available plus the handles checked
\* out (the ones handed to a Get that has yet to return among them) are as
\* many as the Adds of new handles whose send has taken place minus the
\* checked-out handles that were dropped, and no handle is in two places:
\* the calls, the closes of contexts and the returns of parked calls neither
\* lose nor duplicate a handle.
C3_Conservation ==
  /\ NumAvailable + NumCheckedOut = nSeeded - nDiscarded
  /\ \A h \in Handles : Copies(buf, held, Procs, h) <= 1
  /\ \A q \in Procs : pc[q] = "GetHanded" => held[q][elem[q]] = 1

\* two handles were seeded, one was dropped, the other is still there, and
\* a call that was parked and cancelled has just returned
C3_Witness ==
  /\ last.op \in {"GetCancel", "AddCancel"}
  /\ nSeeded = 2 /\ nDiscarded = 1
  /\ NumAvailable + NumCheckedOut = 1

-----------------------------------------------------------------------------
(* C4 *)

\* the effects of a Get by p that received h in the step: h is the head of
\* the buffer and leaves it, p owns it, and no other goroutine received it
ReceivedHead(p, h) ==
  /\ h = Head(buf)
  /\ Count(buf', h) = Count(buf, h) - 1
  /\ held'[p][h] = held[p][h] + 1
  /\ \A q \in Procs \ {p} : held'[q][h] <= held[q][h]
  /\ \A q \in Procs \ {p} : pc'[q] = "GetHanded" => elem'[q] = elem[q]

\* C4 as stated: whenever a handle is available when Get is called, Get
\* returns at once the head of the buffer with a nil error, and the handle
\* leaves the buffer in that step for the caller alone.
C4_AvailableIsReturned ==
  [][(GetCalled' /\ buf # <<>>)
       => (/\ last'.sel = "recv"
           /\ last'.err = Nil
           /\ pc'[last'.proc] = "idle"
           /\ ReceivedHead(last'.proc, last'.h))
    ]_vars

\* C4 as amended: the same, for a Get called with a context that is not done.
C4_AvailableIsReturnedUnlessDone ==
  [][(GetCalled' /\ buf # <<>> /\ ~last'.ctxDone)
       => (/\ last'.sel = "recv"
           /\ last'.err = Nil
           /\ pc'[last'.proc] = "idle"
           /\ ReceivedHead(last'.proc, last'.h))
    ]_vars

\* a Get with a live context has taken one of two available handles while
\* another goroutine, cancelled in its Get, has yet to return
C4_Witness ==
  /\ GetCalled /\ last.sel = "recv" /\ ~last.ctxDone /\ last.peer = 0
  /\ held[last.proc][last.h] = 1
  /\ Len(buf) = 1 /\ buf[1] # last.h
  /\ \E q \in Procs : pc[q] = "GetWoken"

-----------------------------------------------------------------------------
(* C5 *)

\* a Get called in the step with a live context has parked
GetParks == last'.sel = "park" /\ pc'[last'.proc] = "GetParked" /\ held' = held

\* the handle h sent in the step went to exactly one of the parked Gets,
\* which is runnable with it; the others stay parked and nothing was buffered
WakesExactlyOne(h) ==
  /\ buf' = buf
  /\ \E q \in Procs :
       /\ pc[q] = "GetParked" /\ pc'[q] = "GetHanded"
       /\ elem'[q] = h
       /\ last'.peer = q
       /\ held'[q] = [held[q] EXCEPT ![h] = @ + 1]
       /\ \A r \in Procs \ {q} :
            pc[r] = "GetParked"
              => (pc'[r] = "GetParked" /\ held'[r] = held[r] /\ elem'[r] = elem[r])

\* the Get of q that was handed a handle keeps it until it runs, and then
\* returns that handle with a nil error
ReturnsWhatItWasHanded(q) ==
  \/ pc'[q] = "GetHanded" /\ elem'[q] = elem[q] /\ held'[q] = held[q]
  \/ /\ last'.op = "GetReturn" /\ last'.proc = q
     /\ last'.h = elem[q]
     /\ last'.err = Nil
     /\ pc'[q] = "idle"
     /\ held'[q] = held[q] /\ held[q][elem[q]] = 1

\* C5 as stated: a Get called with a live context on a pool with no handle
\* available parks; while Gets are parked, every Add or Release that
\* completes wakes exactly one of them, which returns the handle just added.
C5_BlockThenUnblock ==
  [][/\ (GetCalled' /\ ~last'.ctxDone /\ buf = <<>>) => GetParks
     /\ (AddSent' /\ recvq # <<>>) => WakesExactlyOne(last'.h)
     /\ \A q \in Procs : pc[q] = "GetHanded" => ReturnsWhatItWasHanded(q)
    ]_vars

\* C5 as amended: the same, for a Get called while no Add is parked (an Add
\* parks with no handle available only in a pool of capacity 0).
C5_BlockThenUnblockNoSender ==
  [][/\ (GetCalled' /\ ~last'.ctxDone /\ buf = <<>> /\ sendq = <<>>) => GetParks
     /\ (AddSent' /\ recvq # <<>>) => WakesExactlyOne(last'.h)
     /\ \A q \in Procs : pc[q] = "GetHanded" => ReturnsWhatItWasHanded(q)
    ]_vars

\* the Get parked longest has returned the handle an Add handed to it, and
\* the other parked Get is still parked
C5_Witness ==
  /\ last.op = "GetReturn"
  /\ held[last.proc][last.h] = 1
  /\ recvq # <<>>
  /\ buf = <<>>

-----------------------------------------------------------------------------
(* C7 *)

\* the last step was the return of a Get with the Cancelled outcome
GetReturnedCancelled ==
  \/ last.op = "Get" /\ last.sel = "done"
  \/ last.op = "GetCancel"

\* the step leaves the handles where they are: the buffer, the parked
\* senders with their handles and all checkouts
RemovesNothing ==
  /\ buf' = buf
  /\ sendq' = sendq
  /\ \A q \in Procs : pc[q] \in {"AddParked", "AddWoken"} => elem'[q] = elem[q]
  /\ held' = held

\* C7 as stated: a Get that returns Cancelled has removed no handle: the
\* buffer, the parked senders with their handles and all checkouts are as
\* before the step, and for a Get that was parked the buffer is empty after
\* its return.
C7_CancelledGetRemovesNothing ==
  [][GetReturnedCancelled'
       => (RemovesNothing /\ (last'.op = "GetCancel" => buf' = <<>>))
    ]_vars

\* C7 as amended: a Get that returns Cancelled has removed no handle: its
\* return, and for a Get that was parked the close of its context, leave the
\* buffer, the parked senders with their handles and all checkouts as they
\* are; the buffer is empty when the close reaches the parked Get, and
\* between the close and the return the Get is out of the receive queue and
\* is given nothing, so that the buffer holds at the cancelled return what
\* other Adds have put there; the Get that takes a handle when it runs (its
\* select polling again, up to Go 1.15) does not return Cancelled.
C7_CancelledGetTakesNothing ==
  [][/\ GetReturnedCancelled' => RemovesNothing
     /\ \A p \in Procs :
          /\ (pc[p] = "GetParked" /\ pc'[p] = "GetWoken")
               => (buf = <<>> /\ RemovesNothing /\ ~InSeq(recvq', p))
          /\ pc[p] = "GetWoken"
               => (/\ ~InSeq(recvq', p)
                   /\ elem'[p] = NoHandle
                   /\ pc'[p] \in {"GetWoken", "idle"}
                   /\ pc'[p] = "GetWoken" => held'[p] = held[p]
                   /\ pc'[p] = "idle"
                        => (/\ last'.proc = p
                            /\ last'.op \in {"GetCancel", "GetRepoll"}
                            /\ last'.op = "GetRepoll"
                                 => (last'.err = Nil /\ last'.h \in Handles)))
    ]_vars

\* a Get that was parked on the empty pool has returned Cancelled, and the
\* buffer holds a handle an Add inserted after the close of the context
C7_Witness ==
  /\ last.op = "GetCancel"
  /\ IsErrDone(last.err)
  /\ buf # <<>>

-----------------------------------------------------------------------------
(* C8 *)

\* the last step was the return of an Add of h by p because its context was
\* done
AddReturnedCancelled(p, h) ==
  /\ last.proc = p /\ last.h = h
  /\ \/ last.op = "Add" /\ last.sel = "done"
     \/ last.op = "AddCancel"

\* the last step was the send of an Add of h by p: of an Add that ran its
\* send case in the step and returned in it, or of a parked Add whose handle
\* a Get took
AddInserted(p, h) ==
  \/ AddSent /\ last.proc = p /\ last.h = h
  \/ GetReceived /\ last.peer = p /\ last.peerH = h

\* C8: an Add that returns because its context is done has inserted nothing:
\* buffer, parked Gets and checkouts are as before, and from the call to the
\* return of a parked Add its handle is neither in the buffer nor with
\* another goroutine; an Add returns otherwise only after its send, which
\* puts exactly one more copy of its handle into the buffer or into the
\* hands of one Get, its return after having parked adding none (the Add
\* woken by the close whose select, polling again up to Go 1.15, runs the
\* send case returns for that reason and has inserted its handle once); and
\* a handle that no Add has inserted is neither available nor checked out.
C8_CancelledAddInsertsNothing ==
  [][/\ \A p \in Procs, h \in Handles :
          /\ AddReturnedCancelled(p, h)'
               => (/\ buf' = buf /\ recvq' = recvq /\ held' = held
                   /\ pc'[p] = "idle"
                   /\ Copies(buf', held', Procs \ {p}, h) = 0)
          /\ AddInserted(p, h)'
               => (/\ Copies(buf', held', Procs \ {p}, h)
                        = Copies(buf, held, Procs \ {p}, h) + 1
                   /\ pc'[p] = IF AddSent' THEN "idle" ELSE "AddTaken")
          /\ (last'.op = "AddReturn" /\ last'.proc = p)
               => (/\ pc[p] = "AddTaken"
                   /\ last'.h = elem[p]
                   /\ buf' = buf /\ recvq' = recvq /\ held' = held)
          /\ (pc[p] = "AddTaken" /\ pc'[p] # "AddTaken")
               => (last'.op = "AddReturn" /\ last'.proc = p)
          /\ (pc[p] = "AddWoken" /\ pc'[p] # "AddWoken")
               => (/\ last'.op \in {"AddCancel", "AddRepoll"}
                   /\ last'.proc = p /\ last'.h = elem[p]
                   /\ last'.op = "AddRepoll" => (SendReady /\ AddSent'))
          /\ pc'[p] \in {"AddParked", "AddWoken"}
               => Copies(buf', held', Procs \ {p}, elem'[p]) = 0
     /\ \A h \in fresh' : Copies(buf', held', Procs, h) = 0
    ]_vars

\* an Add that was parked on the full pool has returned because its context
\* was done; a Get has made room since the close, and the handle of the Add
\* is not in the pool
C8_Witness ==
  /\ last.op = "AddCancel"
  /\ cap > 0
  /\ Len(buf) < cap
  /\ last.h \in fresh
  /\ Copies(buf, held, Procs, last.h) = 0

-----------------------------------------------------------------------------
(* C9 *)

\* C9 as stated: the context of a Get is closed while the Get is parked only
\* on an empty pool; from then on the Get receives nothing, and it leaves
\* with no handle and the wrapped ErrDone, for which IsErrDone is true,
\* taking nothing, whatever has been added since the close.
C9_ParkedGetReturnsErrDone ==
  [][\A p \in Procs :
       /\ (pc[p] = "GetParked" /\ last'.op = "CtxDone" /\ last'.proc = p)
            => (buf = <<>> /\ pc'[p] = "GetWoken" /\ ctx'[p])
       /\ (pc[p] = "GetWoken" /\ pc'[p] = "GetWoken")
            => (held'[p] = held[p] /\ elem'[p] = NoHandle)
       /\ (pc[p] = "GetWoken" /\ pc'[p] # "GetWoken")
            => (/\ last'.op = "GetCancel" /\ last'.proc = p
                /\ pc'[p] = "idle"
                /\ last'.h = NoHandle
                /\ last'.err # Nil
                /\ last'.err # ErrDone
                /\ IsErrDone(last'.err)
                /\ held' = held
                /\ buf' = buf)
    ]_vars

\* C9 as amended: the context of a Get is closed while the Get is parked
\* only on an empty pool; until it runs the Get is given nothing; when it
\* runs with no handle to receive it leaves with no handle and the wrapped
\* ErrDone, for which IsErrDone is true, taking nothing; when a handle has
\* become available since the close it leaves either like that or (its
\* select polling again, up to Go 1.15) with that handle and a nil error.
C9_ParkedGetReturnsErrDoneUnlessServed ==
  [][\A p \in Procs :
       /\ (pc[p] = "GetParked" /\ last'.op = "CtxDone" /\ last'.proc = p)
            => (buf = <<>> /\ pc'[p] = "GetWoken" /\ ctx'[p])
       /\ (pc[p] = "GetWoken" /\ pc'[p] = "GetWoken")
            => (held'[p] = held[p] /\ elem'[p] = NoHandle)
       /\ (pc[p] = "GetWoken" /\ pc'[p] # "GetWoken")
            => /\ last'.proc = p
               /\ pc'[p] = "idle"
               /\ \/ /\ last'.op = "GetCancel"
                     /\ last'.h = NoHandle
                     /\ last'.err # Nil
                     /\ last'.err # ErrDone
                     /\ IsErrDone(last'.err)
                     /\ held' = held
                     /\ buf' = buf
                  \/ /\ last'.op = "GetRepoll"
                     /\ RecvReady
                     /\ last'.h = (IF buf # <<>> THEN Head(buf) ELSE elem[Head(sendq)])
                     /\ last'.err = Nil
                     /\ held'[p][last'.h] = held[p][last'.h] + 1
               /\ ~RecvReady => last'.op = "GetCancel"
    ]_vars

\* a Get whose context was closed while it was parked has returned the
\* wrapped ErrDone and no handle, after an Add had handed a handle to the
\* Get parked behind it
C9_Witness ==
  /\ last.op = "GetCancel"
  /\ last.h = NoHandle
  /\ last.err = Wrap(ErrDone)
  /\ pc[last.proc] = "idle"
  /\ \E q \in Procs : pc[q] = "GetHanded"

-----------------------------------------------------------------------------
(* C10 *)

\* C10: a Get called with a context that is already done returns Cancelled
\* at once and never a handle, whatever the buffer holds.
C10_DoneContextNeverReceives ==
  [][(GetCalled' /\ last'.ctxDone)
       => (/\ last'.sel = "done"
           /\ last'.h = NoHandle
           /\ IsErrDone(last'.err)
           /\ pc'[last'.proc] = "idle"
           /\ buf' = buf /\ held' = held)
    ]_vars

-----------------------------------------------------------------------------
(* C11 *)

\* C11: an Add called with a context that is already done returns at once as
\* cancelled and inserts nothing, whether or not the pool has room.
C11_DoneContextNeverSends ==
  [][(AddCalled' /\ last'.ctxDone)
       => (/\ last'.sel = "done"
           /\ pc'[last'.proc] = "idle"
           /\ buf' = buf /\ recvq' = recvq /\ held' = held)
    ]_vars

-----------------------------------------------------------------------------
(* C6 *)

\* the scenario of C6: capacity one, and h the only handle ever added
OnlyHandle(h) ==
  cap = 1 /\ fresh = Handles \ {h} /\ nSeeded = 1 /\ nDiscarded = 0

\* the last step was the return of the Get of q, which had parked, with a
\* handle that q now holds
ReturnedHandleTo(q) ==
  /\ last.op = "GetReturn"
  /\ last.proc = q
  /\ last.h \in Handles
  /\ last.err = Nil
  /\ pc[q] = "idle"
  /\ held[q][last.h] = 1

\* C6: no double delivery. In a pool of capacity one with the single handle
\* h, the handle is in one place; a Get called with a live context while h
\* is available receives it at once, and one called while h is checked out
\* parks; a parked Get is given h only in the step in which the holder's
\* Release of h takes place, the Release handing h to the Get parked
\* longest and to no other; the Get returns h when it next runs, and not
\* before; and under fair scheduling it does return.
C6_NoDoubleDelivery ==
  /\ [][\A h \in Handles : (OnlyHandle(h) /\ OnlyHandle(h)') =>
          /\ Copies(buf, held, Procs, h) = 1
          /\ (GetCalled' /\ ~last'.ctxDone /\ buf = <<h>>)
               => (last'.sel = "recv" /\ last'.h = h /\ held'[last'.proc][h] = 1
                   /\ pc'[last'.proc] = "idle" /\ buf' = <<>>)
          /\ (GetCalled' /\ ~last'.ctxDone /\ CheckedOut(h) = 1)
               => (GetParks /\ buf' = buf)
          /\ \A q \in Procs :
               /\ (pc[q] = "GetParked" /\ held[q][h] = 0 /\ held'[q][h] = 1)
                    => (/\ AddSent' /\ last'.h = h /\ last'.rel
                        /\ held[last'.proc][h] = 1 /\ held'[last'.proc][h] = 0
                        /\ pc'[q] = "GetHanded" /\ elem'[q] = h)
               /\ pc[q] = "GetParked" => pc'[q] # "idle"
               /\ pc[q] = "GetHanded" => ReturnsWhatItWasHanded(q)
          /\ (AddSent' /\ recvq # <<>>)
               => (/\ last'.h = h
                   /\ held'[Head(recvq)][h] = 1
                   /\ pc'[Head(recvq)] = "GetHanded"
                   /\ \A r \in Procs \ {Head(recvq)} : held'[r][h] = 0)
       ]_vars
  /\ \A q \in Procs :
       [](pc[q] = "GetHanded" => ENABLED GetResume(q))
  /\ \A q \in Procs :
       (pc[q] = "GetHanded") ~> ReturnedHandleTo(q)

\* the worker that parked in Get has returned h, handed to it by the Release
\* of the worker that held it; nobody else has it
C6_Witness ==
  \E h \in Handles :
    /\ OnlyHandle(h)
    /\ ReturnedHandleTo(last.proc) /\ last.h = h
    /\ \A r \in Procs \ {last.proc} : held[r][h] = 0
    /\ buf = <<>>

-----------------------------------------------------------------------------
(* C12 *)

\* a parked call whose context has been closed and that has not returned
Woken(p) == pc[p] \in {"GetWoken", "AddWoken"}
\* the last step was the cancelled return of the parked call of p
ReturnedCancelled(p) ==
  /\ pc[p] = "idle"
  /\ last.proc = p
  /\ last.ctxDone
  /\ \/ last.op = "GetCancel" /\ last.h = NoHandle /\ IsErrDone(last.err)
     \/ last.op = "AddCancel" /\ last.err = Nil

\* the channel case of the select of the woken call of p can proceed
ChannelReady(p) == IF pc[p] = "GetWoken" THEN RecvReady ELSE SendReady
\* the last step was the return of the parked call of p after the close of
\* its context: cancelled, or served by the channel case
ReturnedAfterClose(p) ==
  \/ ReturnedCancelled(p)
  \/ /\ pc[p] = "idle"
     /\ last.proc = p
     /\ last.ctxDone
     /\ last.err = Nil
     /\ \/ last.op = "GetRepoll" /\ last.h \in Handles
        \/ last.op = "AddRepoll"

\* C12: cancellation liveness. The close of the context of a Get parked on
\* an empty pool or of an Add parked on a full pool makes the goroutine
\* runnable; its return needs neither a handle nor room, and no other step
\* parks it again; so under fair scheduling the call returns: Cancelled when
\* no handle (no room) is there when it runs, and Cancelled or served when
\* there is.
C12_CancellationLiveness ==
  /\ [][\A p \in Procs :
          /\ (pc[p] \in {"GetParked", "AddParked"} /\ last'.op = "CtxDone"
              /\ last'.proc = p) => Woken(p)'
          /\ Woken(p) => (Woken(p)' \/ ReturnedAfterClose(p)')
          /\ (Woken(p) /\ ~Woken(p)' /\ ~ChannelReady(p)) => ReturnedCancelled(p)'
       ]_vars
  /\ \A p \in Procs :
       [](Woken(p) => ENABLED (GetWake(p) \/ AddWake(p)))
  /\ \A p \in Procs : Woken(p) ~> ReturnedAfterClose(p)

\* a cancelled parked call has returned while another cancelled call is still
\* to run, the pool having neither a handle for a Get nor room for an Add
C12_Witness ==
  /\ last.op \in {"GetCancel", "AddCancel"}
  /\ ReturnedCancelled(last.proc)
  /\ \E q \in Procs : Woken(q)
  /\ buf = <<>> /\ cap = 0

-----------------------------------------------------------------------------
(* C13 *)

\* a step in which an Add completes its send
Released == \E p \in Procs, h \in Handles, done \in BOOLEAN : AddSend(p, h, done)

\* C13: no starvation. If Adds keep completing, every Get parked on the pool
\* whose context is never closed returns a handle: the parked Gets are
\* served oldest first, no later caller overtakes them, and a Get that was
\* handed a handle returns it when the scheduler runs it.
C13_NoStarvation ==
  ([]<><<Released>>_vars)
    => \A p \in Procs :
         (pc[p] = "GetParked") ~> (ReturnedHandleTo(p) \/ pc[p] = "GetWoken")

\* the oldest of several parked Gets has returned the handle of a Release,
\* while a Get that parked after it is still waiting
C13_Witness ==
  /\ ReturnedHandleTo(last.proc)
  /\ recvq # <<>>
  /\ nSeeded = 1

-----------------------------------------------------------------------------
(* Add outside the callers' discipline *)

\* bound on the Adds of handles their caller does not hold, the parked ones
\* counted
MaxSeeded == 2

\* the Adds of handles their caller does not hold that may yet send: the
\* parked ones, and the ones woken by the close of their context
PendingSeeds ==
  Cardinality({q \in Procs : /\ pc[q] \in {"AddParked", "AddWoken"}
                              /\ held[q][elem[q]] = 0})

\* Add of a handle that is neither new nor checked out by the caller (a
\* second Release of one checkout, or a handle not obtained from the pool):
\* Add looks at the channel and at the context only, so the select sends
\* the handle, returns on a done context or parks like for any other handle;
\* the parked goroutine is recorded in unowned, its handle not being new,
\* and so are, at the send, the goroutines still in Add with that handle
AddUnowned(p, h, done) ==
  /\ pc[p] = "idle"
  /\ ~MayAdd(p, h)
  /\ \/ /\ SendReady
        /\ IF recvq # <<>>
             THEN LET q == Head(recvq) IN
                  /\ recvq' = Tail(recvq)
                  /\ buf' = buf
                  /\ pc' = [pc EXCEPT ![q] = "GetHanded"]
                  /\ elem' = [elem EXCEPT ![q] = h]
                  /\ held' = Checkout(held, q, h)
                  /\ last' = Event("Add", p, h, Nil, "send", done, q, h)
             ELSE /\ buf' = Append(buf, h)
                  /\ last' = Event("Add", p, h, Nil, "send", done, 0, NoHandle)
                  /\ UNCHANGED <<recvq, pc, elem, held>>
        /\ nSeeded' = nSeeded + 1
        /\ unowned' = unowned \cup {x \in Procs \ {p} :
                                     /\ pc[x] \in {"AddParked", "AddWoken"}
                                     /\ elem[x] = h
                                     /\ held[x][h] = 0}
        /\ UNCHANGED sendq
     \/ /\ done
        /\ last' = Event("Add", p, h, Nil, "done", done, 0, NoHandle)
        /\ UNCHANGED <<buf, recvq, sendq, pc, elem, held, nSeeded, unowned>>
     \/ /\ ~done
        /\ ~SendReady
        /\ sendq' = Append(sendq, p)
        /\ pc' = [pc EXCEPT ![p] = "AddParked"]
        /\ elem' = [elem EXCEPT ![p] = h]
        /\ unowned' = unowned \cup {p}
        /\ last' = Event("Add", p, h, Nil, "park", done, 0, NoHandle)
        /\ UNCHANGED <<buf, recvq, held, nSeeded>>
  /\ UNCHANGED <<cap, ctx, fresh, nDiscarded>>
  /\ UNCHANGED call

\* the calls of the model, and Adds outside the discipline as long as fewer
\* than MaxSeeded handles their adder did not hold were sent or are waiting
\* to be sent (the bound keeps the number of copies explored finite)
MisuseNext ==
  \/ Next
  \/ /\ nSeeded + PendingSeeds < MaxSeeded
     /\ \E p \in Procs, h \in Handles, done \in BOOLEAN : AddUnowned(p, h, done)

MisuseSpec == Init /\ [][MisuseNext]_vars

-----------------------------------------------------------------------------
(* C14 *)

\* C14: misuse is handled safely. After an Add of a handle its caller does
\* not hold (a second Release, or a handle not obtained from the pool) no
\* handle is stored twice in the buffer and no handle is checked out twice.
C14_MisuseIsSafe ==
  \A h \in Handles : Count(buf, h) <= 1 /\ CheckedOut(h) <= 1

-----------------------------------------------------------------------------
(* C15 *)

\* C15: cancellation is the only failure. A Get returns an error only when
\* its context is done at its return, the error is then the wrapped ErrDone
\* next to a nil handle, and a Get whose context is not done returns, when it
\* returns, a handle and a nil error; so does the Get that was handed a
\* handle while parked, whatever its context is when it returns.
C15_OnlyCancellationFails ==
  /\ (GetReturned /\ last.err # Nil)
       => (/\ last.ctxDone
           /\ IsErrDone(last.err)
           /\ last.h = NoHandle
           /\ last.sel = "done")
  /\ (GetReturned /\ ~last.ctxDone)
       => (last.sel = "recv" /\ last.err = Nil /\ last.h \in Handles
           /\ held[last.proc][last.h] > 0)
  /\ (GetReturned /\ last.err = Nil)
       => (last.sel = "recv" /\ last.h \in Handles
           /\ held[last.proc][last.h] > 0)
  /\ GetReturned => pc[last.proc] = "idle"
  /\ \A p \in Procs : pc[p] = "GetWoken" => ctx[p]

\* a Get whose context was closed while it was parked has returned ErrDone
\* although a handle has been buffered since, while another Get, its context
\* closed after it was handed a handle, is to return that handle
C15_Witness ==
  /\ last.op = "GetCancel"
  /\ last.ctxDone
  /\ IsErrDone(last.err)
  /\ \E q \in Procs : pc[q] = "GetHanded" /\ ctx[q]

-----------------------------------------------------------------------------
(* C16 *)

\* C16: a pool of capacity 0. A Get called with a context that is not done
\* parks unless an Add is waiting with its handle; a Get that returns a
\* handle at once takes it from the Add waiting longest; a parked Get ends
\* only by the send of an Add, which hands it the handle it will return, or
\* by the close of its context; and no handle is checked out before the send
\* of an Add has taken place.
C16_CapacityZero ==
  [][cap = 0 =>
       /\ (GetCalled' /\ ~last'.ctxDone /\ sendq = <<>>) => last'.sel = "park"
       /\ (GetReceived')
            => (/\ sendq # <<>>
                /\ last'.peer = Head(sendq)
                /\ last'.h = elem[Head(sendq)])
       /\ \A p \in Procs :
            /\ (pc[p] = "GetParked" /\ pc'[p] # "GetParked")
                 => \/ /\ last'.op = "CtxDone" /\ last'.proc = p
                       /\ pc'[p] = "GetWoken"
                    \/ /\ AddSent' /\ last'.peer = p
                       /\ pc'[p] = "GetHanded" /\ elem'[p] = last'.h
                       /\ held'[p][last'.h] > 0
            /\ (last'.op = "GetReturn" /\ last'.proc = p)
                 => (pc[p] = "GetHanded" /\ last'.h = elem[p] /\ nSeeded > 0)
       /\ (NumCheckedOut' > 0 => nSeeded' > 0)
       /\ buf' = <<>>
    ]_vars

\* in a pool of capacity 0 a Get has returned the handle of a parked Add
\* while another Add is still parked
C16_Witness ==
  /\ cap = 0
  /\ GetCalled
  /\ last.sel = "recv"
  /\ last.peer # 0
  /\ held[last.proc][last.h] = 1
  /\ sendq # <<>>

-----------------------------------------------------------------------------
(* C17 *)

\* goroutine p stays parked in its select, its place in the queue kept
StaysParked(p) ==
  /\ pc'[p] = pc[p]
  /\ elem'[p] = elem[p]
  /\ ctx'[p] = ctx[p]
  /\ \A q \in Procs :
       /\ (InSeq(recvq, q) /\ InSeq(recvq', q) /\ InSeq(recvq, p))
            => (\E i, j \in 1..Len(recvq) : i < j /\ recvq[i] = q /\ recvq[j] = p)
                 = (\E i, j \in 1..Len(recvq') : i < j /\ recvq'[i] = q /\ recvq'[j] = p)
       /\ (InSeq(sendq, q) /\ InSeq(sendq', q) /\ InSeq(sendq, p))
            => (\E i, j \in 1..Len(sendq) : i < j /\ sendq[i] = q /\ sendq[j] = p)
                 = (\E i, j \in 1..Len(sendq') : i < j /\ sendq'[i] = q /\ sendq'[j] = p)

\* C17: suspensions end only for their causes. A parked Get stays parked
\* unless an Add sends it a handle or its context is closed, and a parked
\* Add stays parked unless a Get takes its handle or its context is closed;
\* nothing else (no timeout, no spurious wake-up) ends the suspension, and no
\* parked call returns in the step that ends it; the call that was woken by
\* the close returns with its context done, as cancelled or, when its
\* channel case can proceed as it runs, as served; and the call whose channel
\* operation was completed returns as served.
C17_ParkedUntilCause ==
  [][\A p \in Procs :
       /\ pc[p] = "GetParked"
            => \/ StaysParked(p)
               \/ /\ last'.op = "CtxDone" /\ last'.proc = p /\ last'.ctxDone
                  /\ ctx'[p]
                  /\ pc'[p] = "GetWoken"
               \/ /\ AddSent' /\ last'.peer = p /\ p = Head(recvq)
                  /\ held'[p][last'.h] = held[p][last'.h] + 1
                  /\ elem'[p] = last'.h
                  /\ pc'[p] = "GetHanded"
       /\ pc[p] = "AddParked"
            => \/ StaysParked(p)
               \/ /\ last'.op = "CtxDone" /\ last'.proc = p /\ last'.ctxDone
                  /\ ctx'[p]
                  /\ pc'[p] = "AddWoken"
               \/ /\ GetReceived' /\ last'.peer = p
                  /\ p = Head(sendq)
                  /\ last'.peerH = elem[p]
                  /\ pc'[p] = "AddTaken"
       /\ (pc[p] = "GetParked" /\ ~AddSent'
           /\ ~(last'.op = "CtxDone" /\ last'.proc = p))
            => StaysParked(p)
       /\ (pc[p] = "AddParked" /\ ~(GetReceived')
           /\ ~(last'.op = "CtxDone" /\ last'.proc = p))
            => StaysParked(p)
       /\ (pc[p] \in {"GetWoken", "AddWoken"} /\ pc'[p] # pc[p])
            => (/\ last'.op \in (IF pc[p] = "GetWoken"
                                   THEN {"GetCancel", "GetRepoll"}
                                   ELSE {"AddCancel", "AddRepoll"})
                /\ last'.op \in {"GetRepoll", "AddRepoll"} => ChannelReady(p)
                /\ last'.proc = p
                /\ last'.ctxDone
                /\ pc'[p] = "idle")
       /\ (pc[p] \in {"GetHanded", "AddTaken"} /\ pc'[p] # pc[p])
            => (/\ last'.op = (IF pc[p] = "GetHanded" THEN "GetReturn" ELSE "AddReturn")
                /\ last'.proc = p
                /\ last'.h = elem[p]
                /\ pc'[p] = "idle")
    ]_vars

\* a Get has taken the oldest handle of a full pool and so taken over the
\* handle of the parked Add, which fills the pool again; the Add is to run
C17_Witness ==
  /\ cap > 0
  /\ GetCalled
  /\ last.sel = "recv"
  /\ last.peer # 0
  /\ last.peerH # last.h
  /\ pc[last.peer] = "AddTaken"
  /\ Len(buf) = cap

-----------------------------------------------------------------------------
(* C20 *)

\* the last step was a call of Add with a context that is not done
AddCalledLive == AddCalled /\ ~last.ctxDone

\* C20 as stated: between 0 and cap handles are available in every state,
\* and an Add called with a context that is not done parks if and only if
\* exactly cap handles are available at the call.
C20_AddParksIffFull ==
  [][/\ NumAvailable' \in 0..cap
     /\ AddCalledLive' => (last'.sel = "park" <=> NumAvailable = cap)
    ]_vars

\* C20 as amended: between 0 and cap handles are available in every state,
\* the checked-out ones not counted, and an Add called with a context that
\* is not done parks if and only if exactly cap handles are available at the
\* call and no Get is parked; with a Get parked (a pool of capacity 0, or an
\* empty pool) the Add hands its handle to that Get and returns.
C20_AddParksIffFullNoReceiver ==
  [][/\ NumAvailable' \in 0..cap
     /\ AddCalledLive'
          => (last'.sel = "park" <=> (NumAvailable = cap /\ recvq = <<>>))
     /\ (AddCalledLive' /\ last'.sel = "park")
          => (pc'[last'.proc] = "AddParked" /\ buf' = buf)
     /\ (AddCalledLive' /\ last'.sel = "send" /\ recvq = <<>>)
          => (NumAvailable' = NumAvailable + 1 /\ pc'[last'.proc] = "idle")
     /\ (AddCalledLive' /\ recvq # <<>>)
          => (/\ HandedOver' /\ NumAvailable' = NumAvailable
              /\ pc'[last'.proc] = "idle"
              /\ pc'[last'.peer] = "GetHanded")
    ]_vars

\* in a pool of capacity 0, so with exactly cap handles available, a Release
\* called with a context not done has not parked: a Get was waiting
C20_Witness ==
  /\ cap = 0
  /\ NumAvailable = cap
  /\ AddCalledLive
  /\ HandedOver
  /\ last.rel
  /\ pc[last.peer] = "GetHanded"

-----------------------------------------------------------------------------
(* C21 *)

\* the handles that have been put into the pool: the ones passed to Add,
\* less the ones of Adds that have yet to send or were cancelled
Added ==
  {h \in Handles :
     /\ h \notin fresh
     /\ ~\E q \in Procs : /\ pc[q] \in {"AddParked", "AddWoken"}
                          /\ elem[q] = h
                          /\ held[q][h] = 0}

\* at most cap distinct handles have been put into the pool
AtMostCapAdded == Cardinality(Added) <= cap

\* C21: Release never blocks under correct use. When at most cap distinct
\* handles have been put into the pool and a goroutine Adds a handle it has
\* checked out, fewer than cap handles are available at the call, and the
\* Add does not park: it sends and returns, or returns at once on a done
\* context.
C21_ReleaseNeverParks ==
  [][(AddCalled' /\ last'.rel /\ AtMostCapAdded)
       => (/\ NumAvailable < cap
           /\ last'.sel \in {"send", "done"}
           /\ ~last'.ctxDone => last'.sel = "send"
           /\ pc'[last'.proc] = "idle")
    ]_vars

\* with as many handles put into the pool as the capacity, a Release has
\* filled the pool
C21_Witness ==
  /\ AddSent
  /\ last.rel
  /\ ~last.ctxDone
  /\ cap > 1
  /\ Cardinality(Added) = cap
  /\ NumAvailable = cap

-----------------------------------------------------------------------------
(* C22 *)

\* the handles leave the pool in the order in which they entered it: an Add
\* appends at the tail of the buffer, or hands its handle to the Get parked
\* longest when the buffer is empty; a Get takes the head of the buffer, or
\* the handle of the Add parked longest when the buffer is empty, and the
\* Add parked longest then appends its handle; a runnable Get returns the
\* handle it was handed; no other step changes the buffer
TakenInInsertionOrder ==
  /\ (GetReceived' /\ buf # <<>>)
       => (/\ last'.h = Head(buf)
           /\ buf' = IF sendq # <<>> THEN Append(Tail(buf), elem[Head(sendq)])
                     ELSE Tail(buf))
  /\ (GetReceived' /\ buf = <<>>)
       => (sendq # <<>> /\ last'.h = elem[Head(sendq)] /\ buf' = <<>>)
  /\ (AddSent' /\ recvq = <<>>) => buf' = Append(buf, last'.h)
  /\ (AddSent' /\ recvq # <<>>)
       => (/\ buf = <<>> /\ buf' = <<>>
           /\ last'.peer = Head(recvq)
           /\ pc'[Head(recvq)] = "GetHanded"
           /\ elem'[Head(recvq)] = last'.h)
  /\ last'.op = "GetReturn"
       => (last'.h = elem[last'.proc] /\ last'.h \in Handles)
  /\ ~(AddSent' \/ (GetReceived')) => buf' = buf

\* C22 as stated: handles are returned by Get in the order of their
\* insertion. The handles leave the pool in that order, and no Get returns a
\* handle it took from the pool while a Get that was handed a handle inserted
\* before has yet to return.
C22_ReturnedInInsertionOrder ==
  [][/\ TakenInInsertionOrder
     /\ (GetReceived')
          => \A q \in Procs : pc[q] # "GetHanded"
    ]_vars

\* C22 as amended: handles leave the pool in the order in which they entered
\* it; the Get that was parked and is handed a handle returns when it is next
\* run, which may be after the return of a Get that took a later handle.
C22_TakenInInsertionOrder == [][TakenInInsertionOrder]_vars

\* a Get has taken a handle from the buffer and returned while the Get that
\* was handed the handle inserted before has not run yet
C22_Witness ==
  /\ GetCalled
  /\ last.sel = "recv"
  /\ last.peer = 0
  /\ \E q \in Procs : pc[q] = "GetHanded" /\ elem[q] # last.h

-----------------------------------------------------------------------------
(* C23 *)

\* 1 when the send of an Add of h takes place in the step: the send of an
\* Add called in the step, or the send of the parked Add that a Get completes
InsertionsOf(h) ==
  (IF AddSent' /\ last'.h = h THEN 1 ELSE 0)
  + (IF GetReceived' /\ last'.peer # 0 /\ last'.peerH = h
       THEN 1 ELSE 0)
\* 1 when the step gives h to a Get: to a Get called in the step, which
\* returns it, or to the parked Get an Add hands h to, which returns it later
DeliveriesOf(h) ==
  (IF GetReceived' /\ last'.h = h THEN 1 ELSE 0)
  + (IF HandedOver' /\ last'.h = h THEN 1 ELSE 0)

\* C23 as stated: every handle returned by a Get was inserted by an Add that
\* completed earlier: when a Get returns h, the Add that put h into the pool
\* has returned.
C23_InsertedByCompletedAdd ==
  GetReturnedHandle
    => \A q \in Procs : ~(pc[q] = "AddTaken" /\ elem[q] = last.h)

\* C23 as amended: every handle returned by a Get was inserted by an Add
\* whose send had taken place, the Add itself returning before or after the
\* Get. In every step the number of copies of h in the buffer grows by the
\* sends of h that take place in the step and falls by the copies of h given
\* to a Get, so that, the buffer being empty at first, the Gets that were
\* given h never outnumber the sends of h; a Get is given h only if h is
\* buffered or is the handle of the Add parked longest, and that copy goes to
\* this Get alone; and a Get that had parked returns the handle it was given.
C23_DeliveryIntegrity ==
  [][/\ \A h \in Handles :
          /\ Count(buf', h) = Count(buf, h) + InsertionsOf(h) - DeliveriesOf(h)
          /\ DeliveriesOf(h) <= 1
          /\ DeliveriesOf(h) = 1
               => (/\ Count(buf, h) + InsertionsOf(h) >= 1
                   /\ CheckedOut(h)' = CheckedOut(h) + 1
                            - (IF last'.rel \/ (last'.peer # 0 /\ GetReceived'
                                                /\ held[last'.peer][h] > 0)
                                 THEN 1 ELSE 0))
          /\ DeliveriesOf(h) = 0 => CheckedOut(h)' <= CheckedOut(h)
     /\ last'.op = "GetReturn"
          => (/\ pc[last'.proc] = "GetHanded"
              /\ last'.h = elem[last'.proc]
              /\ held[last'.proc][last'.h] > 0
              /\ held' = held)
     /\ \A q \in Procs :
          pc'[q] = "AddTaken" /\ pc[q] # "AddTaken"
            => (InsertionsOf(elem[q]) = 1 /\ last'.peer = q)
    ]_vars

\* in a pool of capacity 0 a Get has returned the handle it took from a
\* parked Add, and that Add has yet to return
C23_Witness ==
  /\ cap = 0
  /\ TookFromSender
  /\ last.h = last.peerH
  /\ held[last.proc][last.h] = 1
  /\ pc[last.peer] = "AddTaken"
  /\ elem[last.peer] = last.h

-----------------------------------------------------------------------------
(* C24 *)

\* the workers' cycle: between 1 and cap handles are seeded, none is
\* dropped, and a worker calls Get only when it holds no handle
WorkersCycle ==
  /\ nSeeded >= 1
  /\ Cardinality(Handles \ fresh) <= cap
  /\ nDiscarded = 0
  /\ \A p \in Procs : pc[p] = "GetParked" => \A h \in Handles : held[p][h] = 0
\* a step that brings the workers on: the run of a runnable goroutine, or the
\* Release of a handle by its holder
WorkerStep ==
  \/ \E p \in Procs : Run(p)
  \/ \E p \in Procs, h \in Handles : held[p][h] > 0 /\ AddSend(p, h, FALSE)
\* the last step was the return of a handle by a Get
SomeGetReturnedHandle ==
  /\ GetReturnedHandle
  /\ last.h \in Handles
  /\ last.err = Nil
  /\ pc[last.proc] = "idle"
  /\ held[last.proc][last.h] > 0

-----------------------------------------------------------------------------
(* C25 *)

\* C25: in a pool of capacity 0 no handle is ever buffered. An Add called
\* while a Get is parked hands its handle to the Get parked longest; an Add
\* called while no Get is parked parks, or returns at once on a done context,
\* without storing the handle; a parked Add ends only when a Get takes its
\* handle from it or when its context is closed; and the Add woken by the
\* close returns without its handle having gone anywhere, unless a Get is
\* parked when it runs and its select, polling again, hands the handle to
\* that Get.
C25_NothingStoredAtCapacityZero ==
  [][cap = 0 =>
       /\ buf = <<>> /\ buf' = <<>>
       /\ AddSent'
            => (/\ recvq # <<>>
                /\ last'.peer = Head(recvq)
                /\ pc'[last'.peer] = "GetHanded"
                /\ elem'[last'.peer] = last'.h
                /\ held'[last'.peer][last'.h] = held[last'.peer][last'.h] + 1)
       /\ (AddCalled' /\ recvq = <<>>)
            => (/\ last'.sel = (IF last'.ctxDone THEN "done" ELSE "park")
                /\ \A q \in Procs : held'[q] = held[q])
       /\ \A p \in Procs :
            /\ (pc[p] = "AddParked" /\ pc'[p] # "AddParked")
                 => \/ /\ last'.op = "CtxDone" /\ last'.proc = p
                       /\ pc'[p] = "AddWoken"
                       /\ \A q \in Procs : held'[q] = held[q]
                    \/ /\ GetReceived' /\ last'.peer = p
                       /\ pc'[p] = "AddTaken"
                       /\ last'.h = elem[p]
                       /\ held'[last'.proc][elem[p]] > 0
            /\ (pc[p] = "AddWoken" /\ pc'[p] # "AddWoken")
                 => (/\ last'.op \in {"AddCancel", "AddRepoll"}
                     /\ last'.proc = p
                     /\ last'.op = "AddCancel" => \A q \in Procs : held'[q] = held[q]
                     /\ last'.op = "AddRepoll" => recvq # <<>>)
    ]_vars

\* in a pool of capacity 0 a parked Add has been cancelled and has returned,
\* its handle not stored, after another Add had handed its handle to a
\* waiting Get
C25_Witness ==
  /\ cap = 0
  /\ last.op = "AddCancel"
  /\ last.h \in fresh
  /\ buf = <<>>
  /\ NumCheckedOut >= 1

-----------------------------------------------------------------------------
(* Text: a Go string is modelled as the sequence of its characters.
   strings.TrimPrefix, strings.Split, strconv.Itoa and strconv.Atoi *)

CbPrefix == <<"c", "b", ":">>
Colon == <<":">>

HasPrefix(s, prefix) ==
  Len(s) >= Len(prefix) /\ SubSeq(s, 1, Len(prefix)) = prefix

\* variant of TrimPrefix: every leading repetition of the prefix is removed
RECURSIVE TrimPrefix_All(_, _)
TrimPrefix_All(s, prefix) ==
  IF HasPrefix(s, prefix)
    THEN TrimPrefix_All(SubSeq(s, Len(prefix) + 1, Len(s)), prefix)
    ELSE s

\* strings.TrimPrefix: s without the prefix when s starts with it, else s
TrimPrefix(s, prefix) ==
  IF HasPrefix(s, prefix) THEN SubSeq(s, Len(prefix) + 1, Len(s)) ELSE s

\* strings.Index: where sep first occurs in s, 0 when it does not
Index(s, sep) ==
  LET At(i) == SubSeq(s, i, i + Len(sep) - 1) = sep
      Places == {i \in 1..(Len(s) - Len(sep) + 1) : At(i)}
  IN IF Places = {} THEN 0
     ELSE CHOOSE i \in Places : \A j \in Places : i <= j

\* strings.Split for a separator that is not empty: the parts of s between
\* the occurrences of sep, taken from the left
RECURSIVE Split(_, _)
Split(s, sep) ==
  LET i == Index(s, sep) IN
  IF i = 0 THEN <<s>>
  ELSE <<SubSeq(s, 1, i - 1)>> \o Split(SubSeq(s, i + Len(sep), Len(s)), sep)

Digits == <<"0", "1", "2", "3", "4", "5", "6", "7", "8", "9">>
IsDigit(c) == \E i \in 1..Len(Digits) : Digits[i] = c
DigitVal(c) == (CHOOSE i \in 1..Len(Digits) : Digits[i] = c) - 1

RECURSIVE FormatUint(_)
FormatUint(n) ==
  IF n < 10 THEN <<Digits[n + 1]>>
  ELSE FormatUint(n \div 10) \o <<Digits[(n % 10) + 1]>>

\* strconv.Itoa: the decimal digits of n, after "-" when n is negative
Itoa(n) == IF n < 0 THEN <<"-">> \o FormatUint(-n) ELSE FormatUint(n)

RECURSIVE ParseUint(_)
ParseUint(s) ==
  IF s = <<>> THEN 0
  ELSE ParseUint(SubSeq(s, 1, Len(s) - 1)) * 10 + DigitVal(s[Len(s)])

ErrSyntax == [msg |-> "invalid syntax", wrapped |-> FALSE]
ErrRange == [msg |-> "value out of range", wrapped |-> FALSE]

\* the decimal digits of the largest uint64, of the largest int64 and of the
\* magnitude of the smallest int64
MaxUint64Digits ==
  <<"1", "8", "4", "4", "6", "7", "4", "4", "0", "7", "3", "7", "0", "9", "5",
    "5", "1", "6", "1", "5">>
MaxInt64Digits ==
  <<"9", "2", "2", "3", "3", "7", "2", "0", "3", "6", "8", "5", "4", "7", "7",
    "5", "8", "0", "7">>
MinInt64Digits ==
  <<"9", "2", "2", "3", "3", "7", "2", "0", "3", "6", "8", "5", "4", "7", "7",
    "5", "8", "0", "8">>

\* the digits d without their leading zeros
RECURSIVE TrimZeros(_)
TrimZeros(d) == IF d # <<>> /\ d[1] = "0" THEN TrimZeros(Tail(d)) ELSE d

\* the number written by the digits d is greater than the one written by
\* the digits limit, which has no leading zero
Exceeds(d, limit) ==
  LET z == TrimZeros(d) IN
  \/ Len(z) > Len(limit)
  \/ /\ Len(z) = Len(limit)
     /\ \E i \in 1..Len(z) :
          /\ DigitVal(z[i]) > DigitVal(limit[i])
          /\ \A j \in 1..(i - 1) : z[j] = limit[j]

\* the int64 nearest to a number outside int64, by its digits
Clamp(neg) == IF neg THEN <<"-">> \o MinInt64Digits ELSE MaxInt64Digits

\* strconv.Atoi: an optional sign, then one decimal digit or more, read from
\* the left: the digits before the first other character overflowing uint64
\* are a range error, any other character is a syntax error, and a number
\* outside int64 is a range error, returned next to the nearest int64, which
\* is written here by its digits. The value of a text in the range is
\* computed for the numbers the integers of the model hold.
Atoi(s) ==
  LET signed == s # <<>> /\ s[1] \in {"+", "-"}
      neg == signed /\ s[1] = "-"
      body == IF signed THEN Tail(s) ELSE s
      Bad == {i \in 1..Len(body) : ~IsDigit(body[i])}
      lead == IF Bad = {} THEN body
              ELSE SubSeq(body, 1, (CHOOSE i \in Bad : \A j \in Bad : i <= j) - 1)
  IN IF body = <<>> THEN [val |-> 0, err |-> ErrSyntax]
     ELSE IF Exceeds(lead, MaxUint64Digits)
       THEN [val |-> Clamp(neg), err |-> ErrRange]
     ELSE IF Bad # {} THEN [val |-> 0, err |-> ErrSyntax]
     ELSE IF Exceeds(body, IF neg THEN MinInt64Digits ELSE MaxInt64Digits)
       THEN [val |-> Clamp(neg), err |-> ErrRange]
     ELSE [val |-> IF neg THEN 0 - ParseUint(body) ELSE ParseUint(body),
           err |-> Nil]

\* the pool is not used by the calls of the converters
NoPool ==
  /\ cap = 0
  /\ buf = <<>>
  /\ recvq = <<>>
  /\ sendq = <<>>
  /\ pc = [p \in Procs |-> "idle"]
  /\ elem = [p \in Procs |-> NoHandle]
  /\ ctx = [p \in Procs |-> FALSE]
  /\ held = [p \in Procs |-> [h \in Handles |-> 0]]
  /\ fresh = Handles
  /\ nSeeded = 0
  /\ nDiscarded = 0
  /\ last = [op |-> "none", proc |-> 0, h |-> NoHandle, err |-> Nil,
             sel |-> "none", ctxDone |-> FALSE, peer |-> 0,
             peerH |-> NoHandle, rel |-> FALSE]
  /\ unowned = {}

-----------------------------------------------------------------------------
(* common.IdxToCb and common.StrCbIdx.UnmarshalText.
   An Idx is written as the int that has its bits, so that the conversions
   int(idx) and Idx(idxInt) leave the number as it is. *)

\* bounds of the inputs
MaxIdx == 12
MaxSymLen == 2
MaxTextLen == 5

SymChars == {"c", "b", "t"}
TextChars == {"c", "b", ":", "4", "-", "x"}

\* the sequences over S of length up to n
SeqsUpTo(S, n) == UNION {[1..k -> S] : k \in 0..n}

Idxs == 0..MaxIdx
Symbols == SeqsUpTo(SymChars, MaxSymLen)
Texts == SeqsUpTo(TextChars, MaxTextLen)
\* length of the longest run of digits in the texts below
LongLen == 20
Nines(n) == [i \in 1..n |-> "9"]
\* texts whose second part is too long a number, or has such a number
\* before or after a character that is no digit
LongTexts ==
  {<<"t", ":">> \o Nines(LongLen),
   <<"c", "b", ":", "t", ":">> \o Nines(LongLen),
   <<"t", ":", "-">> \o Nines(LongLen),
   <<"t", ":">> \o MinInt64Digits,
   <<"t", ":", "+">> \o MinInt64Digits,
   <<"t", ":", "-">> \o SubSeq(MinInt64Digits, 1, Len(MinInt64Digits) - 1) \o <<"9">>,
   <<"t", ":", "0", "0">> \o MinInt64Digits,
   <<"t", ":">> \o Nines(LongLen) \o <<"x">>,
   <<"t", ":", "x">> \o Nines(LongLen),
   <<"t", ":">> \o Nines(LongLen) \o <<":", "4">>}
\* values the target of UnmarshalText may hold before the call
Targets == {[Idx |-> 0, TokenSymbol |-> <<>>],
            [Idx |-> 7, TokenSymbol |-> <<"x">>]}

IdxToCb(idx, tokenSymbol) == CbPrefix \o tokenSymbol \o Colon \o Itoa(idx)

ErrNotStrCbIdx == [msg |-> "can not unmarshal into StrCbIdx", wrapped |-> FALSE]

\* the error returned and the value of *s after s.UnmarshalText(text)
StrCbIdx_UnmarshalText(s, text) ==
  LET withoutCb == TrimPrefix(text, CbPrefix)
      splitted == Split(withoutCb, Colon)
  IN IF Len(splitted) # 2 THEN [err |-> Wrap(ErrNotStrCbIdx), s |-> s]
     ELSE LET idxInt == Atoi(splitted[2]) IN
          IF idxInt.err # Nil THEN [err |-> Wrap(idxInt.err), s |-> s]
          ELSE [err |-> Nil,
                s |-> [Idx |-> idxInt.val, TokenSymbol |-> splitted[1]]]

\* no index and symbol: the text was not made by IdxToCb
NoSource == [idx |-> -1, sym |-> <<>>]

IdxInit ==
  /\ NoPool
  /\ \E t \in Texts \cup LongTexts, s \in Targets :
       call = [fn |-> "text", text |-> t, from |-> NoSource,
               old |-> s, s |-> s, err |-> Nil]

\* the text is made by IdxToCb from an index and a token symbol
IdxToCbCall(idx, tokenSymbol) ==
  /\ call.fn = "text"
  /\ call' = [call EXCEPT !.fn = "IdxToCb",
                          !.text = IdxToCb(idx, tokenSymbol),
                          !.from = [idx |-> idx, sym |-> tokenSymbol]]
  /\ UNCHANGED poolVars

\* the text is unmarshalled into the target
StrCbIdxUnmarshalTextCall ==
  /\ call.fn \in {"text", "IdxToCb"}
  /\ LET r == StrCbIdx_UnmarshalText(call.s, call.text) IN
     call' = [call EXCEPT !.fn = "UnmarshalText", !.old = call.s,
                          !.s = r.s, !.err = r.err]
  /\ UNCHANGED poolVars

IdxNext ==
  \/ \E idx \in Idxs, tokenSymbol \in Symbols : IdxToCbCall(idx, tokenSymbol)
  \/ StrCbIdxUnmarshalTextCall

IdxSpec == IdxInit /\ [][IdxNext]_vars

-----------------------------------------------------------------------------
(* C19 *)

\* the text without one leading "cb:"
WithoutOneCb(t) ==
  IF Len(t) >= 3 /\ t[1] = "c" /\ t[2] = "b" /\ t[3] = ":"
    THEN SubSeq(t, 4, Len(t)) ELSE t
\* the text has two parts around a single ':' and the second part is a
\* decimal integer: digits, after a sign or not
IsDecimalInteger(t) ==
  LET body == IF t # <<>> /\ t[1] \in {"+", "-"} THEN Tail(t) ELSE t
  IN body # <<>> /\ \A i \in 1..Len(body) : IsDigit(body[i])
AfterColon(t) ==
  LET i == CHOOSE j \in 1..Len(t) : t[j] = ":" IN SubSeq(t, i + 1, Len(t))
WellFormedIdxText(t) ==
  /\ Count(WithoutOneCb(t), ":") = 1
  /\ IsDecimalInteger(AfterColon(WithoutOneCb(t)))

\* C19: account index round trip. UnmarshalText of the text IdxToCb makes of
\* an index i and a token symbol s without ':' succeeds with Idx = i and
\* TokenSymbol = s, the text being "cb:" s ":" and the decimal digits of i;
\* a text that, after one leading "cb:", is not two parts around one ':' with
\* a decimal integer as second part gives an error and the target unchanged;
\* so does a text whose second part is a decimal integer that no int holds,
\* and every error leaves the target as it was.
C19_IdxRoundTrip ==
  call.fn = "UnmarshalText" =>
    /\ call.from # NoSource
         => (/\ call.err = Nil
             /\ call.s = [Idx |-> call.from.idx, TokenSymbol |-> call.from.sym]
             /\ call.text = <<"c", "b", ":">> \o call.from.sym \o <<":">>
                              \o Itoa(call.from.idx))
    /\ ~WellFormedIdxText(call.text) => (call.err # Nil /\ call.s = call.old)
    /\ (WellFormedIdxText(call.text) /\ call.err # Nil)
         => (/\ Unwrap(call.err) = ErrRange
             /\ Len(AfterColon(WithoutOneCb(call.text))) >= Len(MaxInt64Digits))
    /\ call.err # Nil => call.s = call.old

\* the symbol "cb" and a two-digit index have come back from "cb:cb:1x"
\* into a target that held other values
C19_Witness ==
  /\ call.fn = "UnmarshalText"
  /\ call.from # NoSource
  /\ call.from.sym = <<"c", "b">>
  /\ call.from.idx >= 10
  /\ call.s.Idx = call.from.idx
  /\ call.s.TokenSymbol = call.from.sym
  /\ call.old # call.s

-----------------------------------------------------------------------------
(* base64.RawURLEncoding: the URL alphabet, no padding *)

B64Chars ==
  <<"A", "B", "C", "D", "E", "F", "G", "H", "I", "J", "K", "L", "M",
    "N", "O", "P", "Q", "R", "S", "T", "U", "V", "W", "X", "Y", "Z",
    "a", "b", "c", "d", "e", "f", "g", "h", "i", "j", "k", "l", "m",
    "n", "o", "p", "q", "r", "s", "t", "u", "v", "w", "x", "y", "z",
    "0", "1", "2", "3", "4", "5", "6", "7", "8", "9", "-", "_">>

IsB64Char(c) == \E i \in 1..Len(B64Chars) : B64Chars[i] = c
B64Val(c) == (CHOOSE i \in 1..Len(B64Chars) : B64Chars[i] = c) - 1

\* EncodeToString: four characters for three bytes, two or three characters
\* for a last group of one or two bytes
RECURSIVE B64Encode(_)
B64Encode(b) ==
  IF Len(b) = 0 THEN <<>>
  ELSE IF Len(b) = 1
    THEN <<B64Chars[(b[1] \div 4) + 1], B64Chars[((b[1] % 4) * 16) + 1]>>
  ELSE IF Len(b) = 2
    THEN <<B64Chars[(b[1] \div 4) + 1],
           B64Chars[((b[1] % 4) * 16 + (b[2] \div 16)) + 1],
           B64Chars[((b[2] % 16) * 4) + 1]>>
  ELSE <<B64Chars[(b[1] \div 4) + 1],
         B64Chars[((b[1] % 4) * 16 + (b[2] \div 16)) + 1],
         B64Chars[((b[2] % 16) * 4 + (b[3] \div 64)) + 1],
         B64Chars[(b[3] % 64) + 1]>> \o B64Encode(SubSeq(b, 4, Len(b)))

\* the bytes of a sequence of 6-bit values
RECURSIVE B64Bytes(_)
B64Bytes(v) ==
  IF Len(v) < 2 THEN <<>>
  ELSE IF Len(v) = 2 THEN <<v[1] * 4 + (v[2] \div 16)>>
  ELSE IF Len(v) = 3
    THEN <<v[1] * 4 + (v[2] \div 16), (v[2] % 16) * 16 + (v[3] \div 4)>>
  ELSE <<v[1] * 4 + (v[2] \div 16),
         (v[2] % 16) * 16 + (v[3] \div 4),
         (v[3] % 4) * 64 + v[4]>> \o B64Bytes(SubSeq(v, 5, Len(v)))

ErrCorruptInput == [msg |-> "illegal base64 data", wrapped |-> FALSE]

\* DecodeString: line ends are skipped; a character outside the alphabet
\* (the padding '=' too) or a last group of one character is an error
B64Decode(s) ==
  LET t == SelectSeq(s, LAMBDA c : c \notin {"\n", "\r"}) IN
  IF (\E i \in 1..Len(t) : ~IsB64Char(t[i])) \/ Len(t) % 4 = 1
    THEN [bytes |-> <<>>, err |-> ErrCorruptInput]
    ELSE [bytes |-> B64Bytes([i \in 1..Len(t) |-> B64Val(t[i])]), err |-> Nil]

-----------------------------------------------------------------------------
(* The BJJ public key as text: common.BjjToString, common.CbStringToBJJ,
   common.StrCbBJJ.UnmarshalText, apitypes.NewCbBJJ, apitypes.cbStrToBJJ and
   apitypes.StrCbBJJ.UnmarshalText *)

\* len of babyjub.PublicKeyComp, of the decoded bytes and of their text
PkLen == 32
DecodedLen == 33
EncodedLen == 44

\* bound: the number of leading bytes of a key that vary
VaryLen == 3
ByteSamples == {0, 1, 127, 128, 255}
FillSamples == {0, 255}

\* the keys of the inputs: the first VaryLen bytes vary, the others are equal
Keys ==
  {[i \in 1..PkLen |-> IF i <= VaryLen THEN f[i] ELSE fill] :
     f \in [1..VaryLen -> ByteSamples], fill \in FillSamples}

EmptyBJJComp == [i \in 1..PkLen |-> 0]
\* the nil *babyjub.PublicKeyComp
NilPk == <<>>

\* variant of ByteSum: the loop leaves out the first byte
RECURSIVE ByteSum_SkipsFirst(_)
ByteSum_SkipsFirst(b) ==
  IF Len(b) <= 1 THEN 0
  ELSE (ByteSum_SkipsFirst(SubSeq(b, 1, Len(b) - 1)) + b[Len(b)]) % 256

\* sum := b[0]; for i := 1; i < len(b); i++ { sum += b[i] } on a byte
RECURSIVE ByteSum(_)
ByteSum(b) ==
  IF Len(b) = 1 THEN b[1]
  ELSE (ByteSum(SubSeq(b, 1, Len(b) - 1)) + b[Len(b)]) % 256

BjjToString(bjj) == CbPrefix \o B64Encode(Append(bjj, ByteSum(bjj)))

NewCbBJJ(pkComp) == CbPrefix \o B64Encode(Append(pkComp, ByteSum(pkComp)))

ErrInvalidFormat == [msg |-> "invalid format", wrapped |-> FALSE]
ErrDecoding == [msg |-> "error decoding base64 string", wrapped |-> FALSE]
ErrLength == [msg |-> "unexpected byte array length", wrapped |-> FALSE]
ErrChecksum == [msg |-> "checksum failed", wrapped |-> FALSE]

\* the key and the error returned by common.CbStringToBJJ
CbStringToBJJ(bjjStr) ==
  IF bjjStr = <<>> THEN [pk |-> NilPk, err |-> Nil]
  ELSE LET splitted == Split(bjjStr, CbPrefix) IN
    IF Len(splitted) # 2 \/ Len(splitted[2]) # EncodedLen
      THEN [pk |-> NilPk, err |-> Wrap(ErrInvalidFormat)]
    ELSE LET decoded == B64Decode(splitted[2]) IN
      IF decoded.err # Nil THEN [pk |-> NilPk, err |-> Wrap(ErrDecoding)]
      ELSE IF Len(decoded.bytes) # DecodedLen
        THEN [pk |-> NilPk, err |-> Wrap(ErrLength)]
      ELSE LET bjjBytes == SubSeq(decoded.bytes, 1, DecodedLen - 1) IN
        IF decoded.bytes[DecodedLen] # ByteSum(bjjBytes)
          THEN [pk |-> NilPk, err |-> Wrap(ErrChecksum)]
          ELSE [pk |-> bjjBytes, err |-> Nil]

\* the key and the error returned by apitypes.cbStrToBJJ
CbStrToBJJ(s) ==
  LET encoded == TrimPrefix(s, CbPrefix) IN
  IF Len(encoded) # EncodedLen THEN [pk |-> EmptyBJJComp, err |-> ErrInvalidFormat]
  ELSE LET decoded == B64Decode(encoded) IN
    IF decoded.err # Nil THEN [pk |-> EmptyBJJComp, err |-> ErrInvalidFormat]
    ELSE IF Len(decoded.bytes) # DecodedLen
      THEN [pk |-> EmptyBJJComp, err |-> ErrInvalidFormat]
    ELSE LET bjjBytes == SubSeq(decoded.bytes, 1, DecodedLen - 1) IN
      IF decoded.bytes[DecodedLen] # ByteSum(bjjBytes)
        THEN [pk |-> EmptyBJJComp, err |-> Wrap(ErrChecksum)]
        ELSE [pk |-> bjjBytes, err |-> Nil]

\* common.StrCbBJJ.UnmarshalText: the error and the value of *s
Common_StrCbBJJ_UnmarshalText(s, text) ==
  IF Len(text) = 0 THEN [pk |-> EmptyBJJComp, err |-> Nil]
  ELSE LET r == CbStringToBJJ(text) IN
    IF r.err # Nil THEN [pk |-> s, err |-> Wrap(r.err)]
    ELSE [pk |-> r.pk, err |-> Nil]

\* apitypes.StrCbBJJ.UnmarshalText: the error and the value of *s
Apitypes_StrCbBJJ_UnmarshalText(s, text) ==
  IF Len(text) = 0 THEN [pk |-> EmptyBJJComp, err |-> Nil]
  ELSE LET r == CbStrToBJJ(text) IN
    IF r.err # Nil THEN [pk |-> s, err |-> Wrap(r.err)]
    ELSE [pk |-> r.pk, err |-> Nil]

\* what the target of UnmarshalText holds before the call
OldTarget == [i \in 1..PkLen |-> 170]

BjjMakers == {"NewCbBJJ", "BjjToString", "payload"}

BjjInit ==
  /\ NoPool
  /\ \E k \in Keys :
       call = [fn |-> "key", key |-> k, check |-> ByteSum(k), text |-> <<>>,
               made |-> "none", pk |-> NilPk, err |-> Nil]

NewCbBJJCall ==
  /\ call.fn = "key"
  /\ call' = [call EXCEPT !.fn = "NewCbBJJ", !.text = NewCbBJJ(call.key)]
  /\ UNCHANGED poolVars

BjjToStringCall ==
  /\ call.fn = "key"
  /\ call' = [call EXCEPT !.fn = "BjjToString", !.text = BjjToString(call.key)]
  /\ UNCHANGED poolVars

\* a text is made of the 33 bytes of the key and a last byte c
PayloadText(c) ==
  /\ call.fn = "key"
  /\ call' = [call EXCEPT !.fn = "payload", !.check = c,
                          !.text = CbPrefix \o B64Encode(Append(call.key, c))]
  /\ UNCHANGED poolVars

CbStringToBJJCall ==
  /\ call.fn \in BjjMakers
  /\ LET r == CbStringToBJJ(call.text) IN
     call' = [call EXCEPT !.fn = "CbStringToBJJ", !.made = call.fn,
                          !.pk = r.pk, !.err = r.err]
  /\ UNCHANGED poolVars

CbStrToBJJCall ==
  /\ call.fn \in BjjMakers
  /\ LET r == CbStrToBJJ(call.text) IN
     call' = [call EXCEPT !.fn = "cbStrToBJJ", !.made = call.fn,
                          !.pk = r.pk, !.err = r.err]
  /\ UNCHANGED poolVars

CommonStrCbBJJUnmarshalTextCall ==
  /\ call.fn \in BjjMakers
  /\ LET r == Common_StrCbBJJ_UnmarshalText(OldTarget, call.text) IN
     call' = [call EXCEPT !.fn = "common.StrCbBJJ.UnmarshalText",
                          !.made = call.fn, !.pk = r.pk, !.err = r.err]
  /\ UNCHANGED poolVars

ApitypesStrCbBJJUnmarshalTextCall ==
  /\ call.fn \in BjjMakers
  /\ LET r == Apitypes_StrCbBJJ_UnmarshalText(OldTarget, call.text) IN
     call' = [call EXCEPT !.fn = "apitypes.StrCbBJJ.UnmarshalText",
                          !.made = call.fn, !.pk = r.pk, !.err = r.err]
  /\ UNCHANGED poolVars

BjjNext ==
  \/ NewCbBJJCall
  \/ BjjToStringCall
  \/ \E c \in ByteSamples : PayloadText(c)
  \/ CbStringToBJJCall
  \/ CbStrToBJJCall
  \/ CommonStrCbBJJUnmarshalTextCall
  \/ ApitypesStrCbBJJUnmarshalTextCall

BjjSpec == BjjInit /\ [][BjjNext]_vars

-----------------------------------------------------------------------------
(* C18 *)

RECURSIVE SeqSum(_)
SeqSum(b) == IF b = <<>> THEN 0 ELSE b[1] + SeqSum(Tail(b))

BjjDecoders == {"CbStringToBJJ", "cbStrToBJJ", "common.StrCbBJJ.UnmarshalText",
                "apitypes.StrCbBJJ.UnmarshalText"}

\* C18: BJJ key round trip. The text NewCbBJJ and BjjToString make of a key k
\* of 32 bytes is "cb:" and the 44 characters of the base64url encoding of k
\* and of the sum of its bytes modulo 256; cbStrToBJJ, CbStringToBJJ and both
\* StrCbBJJ.UnmarshalText decode it without error to k; and the text of 33
\* bytes whose last byte is not that sum is rejected with an error.
C18_BjjRoundTrip ==
  call.fn \in BjjDecoders =>
    /\ call.made \in {"NewCbBJJ", "BjjToString"}
         => (/\ call.text = <<"c", "b", ":">>
                   \o B64Encode(Append(call.key, SeqSum(call.key) % 256))
             /\ Len(call.text) = 3 + 44
             /\ B64Decode(SubSeq(call.text, 4, Len(call.text))).bytes
                  = Append(call.key, SeqSum(call.key) % 256)
             /\ call.err = Nil
             /\ call.pk = call.key)
    /\ (call.made = "payload" /\ call.check # SeqSum(call.key) % 256)
         => call.err # Nil

\* a key whose bytes sum to more than 255 has come back from the text made
\* by NewCbBJJ through apitypes.StrCbBJJ.UnmarshalText
C18_Witness ==
  /\ call.fn = "apitypes.StrCbBJJ.UnmarshalText"
  /\ call.made = "NewCbBJJ"
  /\ SeqSum(call.key) > 255
  /\ call.err = Nil
  /\ call.pk = call.key
  /\ call.pk # OldTarget

-----------------------------------------------------------------------------
(* common.CbStringToEthAddr, with ethCommon.Address.UnmarshalText
   (hexutil.UnmarshalFixedText into the 20 bytes of an address) *)

\* len of the text after "cb:" and of an address in bytes
EthTextLen == 42
AddressLength == 20

LowerHex == <<"0", "1", "2", "3", "4", "5", "6", "7", "8", "9",
              "a", "b", "c", "d", "e", "f">>
UpperHex == <<"0", "1", "2", "3", "4", "5", "6", "7", "8", "9",
              "A", "B", "C", "D", "E", "F">>
IsHexChar(c) == \E i \in 1..16 : LowerHex[i] = c \/ UpperHex[i] = c
NibbleVal(c) == (CHOOSE i \in 1..16 : LowerHex[i] = c \/ UpperHex[i] = c) - 1

ZeroAddr == [i \in 1..AddressLength |-> 0]
\* the nil *ethCommon.Address
NilAddr == <<>>

ErrMissingPrefix == [msg |-> "hex string without 0x prefix", wrapped |-> FALSE]
ErrOddLength == [msg |-> "hex string of odd length", wrapped |-> FALSE]
ErrHexLength == [msg |-> "hex string has wrong length", wrapped |-> FALSE]
ErrHexSyntax == [msg |-> "invalid hex string", wrapped |-> FALSE]
ErrInvalidEthAddr == [msg |-> "invalid eth address format", wrapped |-> FALSE]

\* addr.UnmarshalText: "0x" or "0X", then two hex digits for each byte
AddressUnmarshalText(input) ==
  IF input = <<>> THEN [addr |-> ZeroAddr, err |-> ErrHexLength]
  ELSE IF ~(Len(input) >= 2 /\ input[1] = "0" /\ input[2] \in {"x", "X"})
    THEN [addr |-> ZeroAddr, err |-> ErrMissingPrefix]
  ELSE IF Len(input) % 2 # 0 THEN [addr |-> ZeroAddr, err |-> ErrOddLength]
  ELSE LET raw == SubSeq(input, 3, Len(input)) IN
    IF Len(raw) \div 2 # AddressLength
      THEN [addr |-> ZeroAddr, err |-> ErrHexLength]
    ELSE IF \E i \in 1..Len(raw) : ~IsHexChar(raw[i])
      THEN [addr |-> ZeroAddr, err |-> ErrHexSyntax]
    ELSE [addr |-> [i \in 1..AddressLength |->
                      NibbleVal(raw[2 * i - 1]) * 16 + NibbleVal(raw[2 * i])],
          err |-> Nil]

\* the address and the error returned by CbStringToEthAddr
CbStringToEthAddr(addrStr) ==
  IF addrStr = <<>> THEN [addr |-> NilAddr, err |-> Nil]
  ELSE LET splitted == Split(addrStr, CbPrefix) IN
    IF Len(splitted) # 2 \/ Len(splitted[2]) # EthTextLen
      THEN [addr |-> NilAddr, err |-> Wrap(ErrInvalidEthAddr)]
      ELSE LET r == AddressUnmarshalText(splitted[2]) IN
           [addr |-> r.addr, err |-> Wrap(r.err)]

\* bounds of the inputs: the characters before "cb:", and by how much the
\* number of hex digits may differ from 40
MaxLeadLen == 2
MaxLenDiff == 1

LeadChars == {"x", "c", ":"}
Leads == SeqsUpTo(LeadChars, MaxLeadLen)
Marks == {CbPrefix, <<>>, <<"c", "b">>}
HexPrefixes == {<<"0", "x">>, <<"0", "0">>, <<"x", "0">>}
DigitSamples == {"0", "9", "a", "F", "g"}
\* n times the character c, after the character d
Repeated(d, c, n) == [i \in 1..n |-> IF i = 1 THEN d ELSE c]
HexBodies ==
  {Repeated(d, c, n) :
     d \in DigitSamples, c \in DigitSamples,
     n \in (2 * AddressLength - MaxLenDiff)..(2 * AddressLength + MaxLenDiff)}
EthTexts ==
  {<<>>} \cup {l \o m \o x \o b :
                 l \in Leads, m \in Marks, x \in HexPrefixes, b \in HexBodies}

EthInit ==
  /\ NoPool
  /\ \E t \in EthTexts :
       call = [fn |-> "text", text |-> t, addr |-> NilAddr, err |-> Nil]

CbStringToEthAddrCall ==
  /\ call.fn = "text"
  /\ LET r == CbStringToEthAddr(call.text) IN
     call' = [call EXCEPT !.fn = "CbStringToEthAddr",
                          !.addr = r.addr, !.err = r.err]
  /\ UNCHANGED poolVars

EthNext == CbStringToEthAddrCall

EthSpec == EthInit /\ [][EthNext]_vars

-----------------------------------------------------------------------------
(* C26 *)

\* the text is "cb:" at its start and exactly 42 characters after it
CbThen42(t) ==
  /\ Len(t) = 3 + 42
  /\ t[1] = "c" /\ t[2] = "b" /\ t[3] = ":"
\* the text matches ^cb:0x[a-fA-F0-9]{40}$
MatchesCbEthAddr(t) ==
  /\ CbThen42(t)
  /\ t[4] = "0" /\ t[5] = "x"
  /\ \A i \in 6..45 : IsHexChar(t[i])

\* C26: CbStringToEthAddr returns (nil, nil) for the empty text, an error for
\* every other text that is not "cb:" at its start and 42 characters after
\* it (a text with characters before "cb:" among them), and no error only
\* for a text of the form ^cb:0x[a-fA-F0-9]{40}$.
C26_OnlyCbEthAddrAccepted ==
  call.fn = "CbStringToEthAddr" =>
    /\ call.text = <<>> => (call.addr = NilAddr /\ call.err = Nil)
    /\ (call.text # <<>> /\ ~CbThen42(call.text)) => call.err # Nil
    /\ (call.text # <<>> /\ call.err = Nil) => MatchesCbEthAddr(call.text)

=============================================================================
